---- MODULE Spec2Model ----
(***************************************************************************)
(* Model of the YouTube comment analytics repository: the comment fetcher  *)
(* (fetch_comments, the four copies of fetch_all_comments,                 *)
(* extract_video_statistics), the sentiment pipeline                       *)
(* (SentimentAnalyzer, the legacy analyze_sentiment entry point and the    *)
(* per-comment tagging step of the analysis entry points), the text tools  *)
(* (normalizer, emoji scorer, topic/idea/keyword extraction) and the       *)
(* request handlers of the entry points.                                   *)
(***************************************************************************)
EXTENDS Integers, Sequences, FiniteSets, TLC

VARIABLES
    \* ---- comment fetcher ----
    apiKey,        \* os.getenv('YOUTUBE_API_KEY')
    impl,          \* which copy of fetch_all_comments runs
    endpoint,      \* "analyze": statistics first; "comments": pagination only
    max_results,   \* the optional cap: [isNone |-> BOOLEAN, v |-> Int]
    upstream,      \* the upstream's pages, in continuation-token order
    all_comments,  \* the accumulated list
    page_token,    \* token sent with the next page request
    pc,            \* "stats", "loop" or "done"
    outcome,       \* "running", "returned" or "raised"
    requests,      \* page requests issued to the upstream, in order
    attempts,      \* calls of fetch_comments
    httpCalls,     \* HTTP requests issued (comment pages and statistics)
    sleeps,        \* inter-page delays taken
    video_stats,   \* "unset", "found" or "raised"
    pageError,     \* what made a page request raise: "none", "config", "upstream"
    \* ---- sentiment pipeline ----
    sentiment_pipeline,      \* "unbuilt", "loaded" or "none" (self.sentiment_pipeline)
    analyze_text_sentiment,  \* TRUE iff the analyzer has the attribute of this name
    call,                    \* the last call: its input and what it gave
    \* ---- text tools and entry points ----
    run,                     \* the last evaluation: its inputs and what it gave
    \* ---- Streamlit app ----
    session                  \* st.session_state and the state of the widgets

fetchVars == <<apiKey, impl, endpoint, max_results, upstream, all_comments,
               page_token, pc, outcome, requests, attempts, httpCalls,
               sleeps, video_stats, pageError>>

sentimentVars == <<sentiment_pipeline, analyze_text_sentiment, call>>

vars == <<fetchVars, sentimentVars, run, session>>

\* No evaluation is in progress.
IdleRun == [op |-> "none"]

\* The widgets of the comments explorer as they are first drawn.
DefaultWidgets ==
    [sentiment_filter |-> {"positive", "neutral", "negative"},
     search_term |-> FALSE, comments_per_page |-> 20]

NoComments == [video |-> "", positive |-> 0, neutral |-> 0, negative |-> 0]

\* st.session_state after the first run of app.py. video_stats, comments
\* and dashboard_data carry the id of the video they were computed for ("":
\* None or empty); page_number is 0 until the explorer stores one; shown,
\* total_filtered and total_pages are what the explorer last drew.
NewSession ==
    [video_id |-> "", video_stats |-> "", comments |-> NoComments,
     dashboard_data |-> "", error_message |-> FALSE,
     current_view |-> "overview", widgets |-> DefaultWidgets,
     page_number |-> 0, explorer |-> FALSE,
     total_filtered |-> 0, total_pages |-> 0, shown |-> 0]

\* ---------------------------------------------------------------- bounds
MaxPages == 3        \* pages the upstream holds
MaxPageSize == 2     \* comments per upstream page (stands for the API's 100)
MaxCap == 5          \* largest max_results enumerated
MaxNegCap == 2       \* max_results is enumerated down to -MaxNegCap

\* ------------------------------------------------------------- constants
PageRequestSize == 100   \* max_results=100 passed to fetch_comments
NoToken == 0             \* page_token = None / nextPageToken absent

\* ------------------------------------------------------------- helpers
RECURSIVE SumTo(_, _)
SumTo(sizes, n) == IF n = 0 THEN 0 ELSE sizes[n] + SumTo(sizes, n - 1)

\* The pages of an upstream whose page i holds sizes[i] comments; comments
\* are numbered in upstream order, so every comment is distinct.
PagesOf(sizes) ==
    [i \in 1..Len(sizes) |->
        [j \in 1..sizes[i] |-> SumTo(sizes, i - 1) + j]]

RECURSIVE Concat(_)
Concat(ps) == IF ps = <<>> THEN <<>> ELSE Head(ps) \o Concat(Tail(ps))

Min(a, b) == IF a <= b THEN a ELSE b
Max(a, b) == IF a >= b THEN a ELSE b

\* Python's s[:m], negative m counting from the end.
SliceTo(s, m) ==
    IF m >= 0 THEN SubSeq(s, 1, Min(m, Len(s)))
    ELSE SubSeq(s, 1, Max(Len(s) + m, 0))

IsPrefix(s, t) == Len(s) <= Len(t) /\ s = SubSeq(t, 1, Len(s))

Keys == {"unset", "", "YOUR_API_KEY", "valid-key"}
Impls == {"api", "app", "lambda", "utils"}

\* A credential check that lets the placeholder through.
KeyMissingIgnoresPlaceholder(k) == k = "unset" \/ k = ""

\* `not api_key or api_key == 'YOUR_API_KEY'`
KeyMissing(k) == k = "unset" \/ k = "" \/ k = "YOUR_API_KEY"

\* The raw upstream answer to a page request carrying token tok: the page
\* the token names (the first page without token) and the token of the page
\* after it, if any.
PageIndex(tok) == IF tok = NoToken THEN 1 ELSE tok
RawToken(idx) == IF idx < Len(upstream) THEN idx + 1 ELSE NoToken

\* fetch_comments on a successful HTTP answer: an answer without items
\* comes back with no comments and no token.
FetchCommentsResult(tok) ==
    LET idx == PageIndex(tok)
        items == upstream[idx]
    IN IF Len(items) > 0
       THEN [comments |-> items, nextPageToken |-> RawToken(idx)]
       ELSE [comments |-> <<>>, nextPageToken |-> NoToken]

\* An except clause that re-raises whatever was accumulated.
OnExceptionAlwaysRaises(i, acc) == "raised"

\* The except clause of fetch_all_comments.
OnException(i, acc) ==
    IF i = "utils" THEN "raised"
    ELSE IF acc # <<>> THEN "returned" ELSE "raised"

\* A stop test that needs more than max_results comments.
ReachedMaxStrict(mr, acc) == ~mr.isNone /\ Len(acc) > mr.v

\* The stop test on max_results.
ReachedMax(mr, acc) == ~mr.isNone /\ Len(acc) >= mr.v

\* A trim that leaves the list as it is.
TrimNothing(mr, acc) == acc

\* The trim to the requested count.
TrimToMax(mr, acc) == SliceTo(acc, mr.v)

\* The token carried by the next request.
NextRequestToken(res) == res.nextPageToken

\* A page put in front of the accumulated list.
ExtendInFront(acc, page) == page \o acc

\* The list after a page was appended.
Extend(acc, page) == acc \o page

Request(tok) == [pageToken |-> tok, maxResults |-> PageRequestSize]

\* ============================================================ sentiment
\* Scores are kept in hundredths (0.2 is 20), emoji weights in tenths.
MaxEmojis == 6       \* emojis in one comment
MaxEmojiArgs == 4    \* emojis handed to analyze_emoji_sentiment
MaxTextLen == 3      \* pieces of a raw text handed to the normalizer
MaxComments == 2     \* comments handed to a text tool
MaxIdeas == 2        \* largest max_ideas enumerated
MaxTopN == 2         \* largest top_n enumerated
MaxIdeaTextLen == 5  \* tokens of a comment text that is mined for ideas
MaxDashComments == 6 \* comments handed to the dashboard lists
MaxPerSentiment == 11 \* comments of one sentiment in an analysed video
MaxHits == 4         \* comments of one sentiment that hold the search term

LexicalThreshold == 10      \* polarity > 0.1 / < -0.1
ConfidenceFloor == 60       \* result["score"] < 0.6
CombinedThreshold == 20     \* combined_score > 0.2 / < -0.2
EmojiWeightCap == 5         \* min(0.5, ...), in tenths

Labels == {"positive", "neutral", "negative"}

\* What the pretrained classifier may answer for a text, and TextBlob's
\* polarity for it: both are black boxes, so a text is the pair of answers
\* together with the emojis it holds.
ModelLabels == {"POSITIVE", "NEGATIVE", "NEUTRAL", "1", "0", "LABEL_1"}
ModelScores == {10, 20, 21, 59, 60, 99}
Polarities == {-100, -11, -10, 0, 10, 11, 20, 21, 100}
Emojis == {"smiling_face", "pouting_face", "rocket"}

\* EMOJI_SENTIMENT_MAP restricted to five of its emojis, in tenths; the
\* rocket is an emoji of emoji.EMOJI_DATA that the table does not hold.
InEmojiMap(e) ==
    e \in {"smiling_face", "neutral_face", "confused_face", "pouting_face"}
EMOJI_SENTIMENT_MAP(e) ==
    CASE e = "smiling_face" -> 10
      [] e = "neutral_face" -> 0
      [] e = "confused_face" -> -3
      [] OTHER -> -10

\* The texts that are no ordinary string: "empty" is '', "blank" is made of
\* whitespace only, "nonstr" is a hashable non-string (None, a number),
\* "unhashable" a non-string that cannot be a cache key (a list, a dict).
OddText(k) ==
    [kind |-> k, polarity |-> 0, mraises |-> FALSE,
     mlabel |-> "NEUTRAL", mscore |-> 99, emojis |-> <<>>]
EmptyText == OddText("empty")
OddTexts == {OddText(k) : k \in {"empty", "blank", "nonstr", "unhashable"}}
IsString(t) == t.kind \in {"str", "empty", "blank"}

StringTexts(pols, emojiLists) ==
    {[kind |-> "str", polarity |-> p, mraises |-> FALSE,
      mlabel |-> l, mscore |-> sc, emojis |-> es] :
        p \in pols, l \in ModelLabels, sc \in ModelScores, es \in emojiLists}
    \cup
    {[kind |-> "str", polarity |-> p, mraises |-> TRUE,
      mlabel |-> "NEUTRAL", mscore |-> 99, emojis |-> es] :
        p \in pols, es \in emojiLists}

EmojiLists(maxLen) == UNION {[1..n -> Emojis] : n \in 0..maxLen}

\* Texts handed to the text scorer.
ScorerTexts == StringTexts(Polarities, {<<>>}) \cup OddTexts

\* Texts of the comments handed to analyze_comment. analyze_comment reads
\* the polarity of no text but the blank one, so one polarity is enough.
CommentTexts(maxLen) == StringTexts({0}, EmojiLists(maxLen)) \cup OddTexts

Result(o, l, sc, inv) ==
    [outcome |-> o, label |-> l, score |-> sc, invoked |-> inv]

\* The TextBlob branch of _analyze_text_sentiment.
LexicalResult(t) ==
    IF ~IsString(t)
    THEN Result("raised", "", 0, {"textblob"})
    ELSE IF t.polarity > LexicalThreshold
         THEN Result("ok", "positive", t.polarity, {"textblob"})
         ELSE IF t.polarity < -LexicalThreshold
              THEN Result("ok", "negative", t.polarity, {"textblob"})
              ELSE Result("ok", "neutral", 0, {"textblob"})

\* label_mapping.get(label, label)
LabelMappingGet(l) ==
    CASE l = "POSITIVE" -> "positive"
      [] l = "NEGATIVE" -> "negative"
      [] l = "NEUTRAL" -> "neutral"
      [] l = "1" -> "positive"
      [] l = "0" -> "negative"
      [] OTHER -> l

\* str.lower() on the strings label_mapping.get can give.
Lower(l) ==
    CASE l = "LABEL_1" -> "label_1"
      [] l = "POSITIVE" -> "positive"
      [] l = "NEGATIVE" -> "negative"
      [] l = "NEUTRAL" -> "neutral"
      [] OTHER -> l

\* The label after the mapping and the demotion of a weak call.
NormalizeLabel(l, sc) ==
    LET label == Lower(LabelMappingGet(l)) IN
    IF label = "positive" /\ sc < ConfidenceFloor THEN "neutral"
    ELSE IF label = "negative" /\ sc < ConfidenceFloor THEN "neutral"
    ELSE label

\* The pipeline branch of _analyze_text_sentiment.
ModelResult(t) ==
    IF t.mraises
    THEN Result("ok", "neutral", 0, {"pipeline"})
    ELSE Result("ok", NormalizeLabel(t.mlabel, t.mscore), t.mscore, {"pipeline"})

\* `not self.sentiment_pipeline or not text.strip()`
TakesLexicalBranch(pipeline, t) ==
    pipeline # "loaded" \/ t.kind \in {"empty", "blank"}

\* SentimentAnalyzer._analyze_text_sentiment
ScoreText(pipeline, t) ==
    IF pipeline = "loaded" /\ ~IsString(t)
    THEN Result("raised", "", 0, {})
    ELSE IF TakesLexicalBranch(pipeline, t)
         THEN LexicalResult(t)
         ELSE ModelResult(t)

\* self.analyze_text_sentiment(text): the memoized scorer when __init__
\* bound it, an AttributeError otherwise; the cache raises on a key that
\* cannot be hashed. A memoized answer is the answer the scorer gave for
\* the same text before.
CachedScoreText(bound, pipeline, t) ==
    IF bound /\ t.kind # "unhashable"
    THEN ScoreText(pipeline, t)
    ELSE Result("raised", "", 0, {})

\* SentimentAnalyzer.__init__: the attribute is bound on the path that
\* loaded the model only.
BindsEntryPoint(loadOk) == loadOk
PipelineAfterInit(loadOk) == IF loadOk THEN "loaded" ELSE "none"

\* clean_comment_text on the texts of the model, which are normalized
\* already: a non-string becomes the empty text without emojis.
CleanCommentText(t) ==
    IF t.kind \in {"nonstr", "unhashable", "blank"} THEN EmptyText ELSE t

RECURSIVE EmojiTotal(_)
EmojiTotal(es) ==
    IF es = <<>> THEN 0
    ELSE (IF InEmojiMap(Head(es)) THEN EMOJI_SENTIMENT_MAP(Head(es)) ELSE 0)
         + EmojiTotal(Tail(es))

RECURSIVE CountedEmojis(_)
CountedEmojis(es) ==
    IF es = <<>> THEN 0
    ELSE (IF InEmojiMap(Head(es)) THEN 1 ELSE 0) + CountedEmojis(Tail(es))

\* An average over every emoji of the list, recognized or not.
EmojiScoreOverAll(es) ==
    IF Len(es) > 0
    THEN [num |-> EmojiTotal(es), den |-> Len(es)]
    ELSE [num |-> 0, den |-> 1]

\* analyze_emoji_sentiment as the fraction num/den of tenths.
EmojiScore(es) ==
    IF CountedEmojis(es) > 0
    THEN [num |-> EmojiTotal(es), den |-> CountedEmojis(es)]
    ELSE [num |-> 0, den |-> 1]

\* A weight that counts the emojis of the table only.
EmojiWeightOfCounted(es) == Min(EmojiWeightCap, CountedEmojis(es))

\* emoji_weight, in tenths.
EmojiWeight(es) == Min(EmojiWeightCap, Len(es))

\* combined_score as the fraction num/den: textScore is in hundredths, the
\* emoji score in tenths, the weight in tenths.
CombinedScore(textScore, es) ==
    IF es = <<>>
    THEN [num |-> textScore, den |-> 100]
    ELSE LET w == EmojiWeight(es)
             e == EmojiScore(es)
         IN [num |-> (10 - w) * textScore * e.den + 10 * w * e.num,
             den |-> 1000 * e.den]

\* final_sentiment
FinalSentiment(c) ==
    IF 100 * c.num > CombinedThreshold * c.den THEN "positive"
    ELSE IF 100 * c.num < -CombinedThreshold * c.den THEN "negative"
    ELSE "neutral"

NoCombined == [num |-> 0, den |-> 1]

Call(op, t, r, c, f) ==
    [op |-> op, text |-> t, outcome |-> r.outcome, label |-> r.label,
     score |-> r.score, invoked |-> r.invoked, combined |-> c, final |-> f]

\* SentimentAnalyzer.analyze_comment
AnalyzeComment(bound, pipeline, t) ==
    LET cleaned == CleanCommentText(t)
        r == CachedScoreText(bound, pipeline, cleaned)
        c == CombinedScore(r.score, cleaned.emojis)
    IN IF r.outcome = "raised"
       THEN Call("analyze_comment", t, r, NoCombined, "")
       ELSE Call("analyze_comment", t, r, c, FinalSentiment(c))

\* The sentiment the entry points store in comment['sentiment']: the label
\* of the legacy analyze_sentiment function.
AnalyzeSentiment(bound, pipeline, t) ==
    LET r == CachedScoreText(bound, pipeline, t)
    IN Call("analyze_sentiment", t, r, NoCombined,
            IF r.outcome = "ok" THEN r.label ELSE "")

\* analyze_sentiment of the simplified module of the Lambda build.
\* It is memoized as a whole, so an unhashable argument never reaches it.
LambdaAnalyzeSentiment(t) ==
    IF t.kind = "unhashable"
    THEN Result("raised", "", 0, {})
    ELSE IF t.kind \in {"empty", "nonstr"}
         THEN Result("ok", "neutral", 0, {})
         ELSE LET r == LexicalResult(t) IN Result("ok", r.label, 0, r.invoked)

IdleCall ==
    Call("none", EmptyText, Result("idle", "", 0, {}), NoCombined, "")

SentimentIdle ==
    /\ sentiment_pipeline = "unbuilt"
    /\ analyze_text_sentiment = FALSE
    /\ call = IdleCall

\* ------------------------------------------------------------------ init
SizeSeqs == UNION {[1..n -> 0..MaxPageSize] : n \in 1..MaxPages}
Caps == {[isNone |-> TRUE, v |-> 0]}
          \cup {[isNone |-> FALSE, v |-> n] : n \in (-MaxNegCap)..MaxCap}

FetchInit ==
    /\ apiKey \in Keys
    /\ impl \in Impls
    /\ endpoint \in {"analyze", "comments"}
    /\ max_results \in Caps
    /\ upstream \in {PagesOf(s) : s \in SizeSeqs}
    /\ all_comments = <<>>
    /\ page_token = NoToken
    /\ pc = IF endpoint = "analyze" THEN "stats" ELSE "loop"
    /\ outcome = "running"
    /\ requests = <<>>
    /\ attempts = 0
    /\ httpCalls = 0
    /\ sleeps = 0
    /\ video_stats = "unset"
    /\ pageError = "none"
    /\ SentimentIdle
    /\ run = IdleRun
    /\ session = NewSession

\* --------------------------------------------- extract_video_statistics
StatsConfigError ==
    /\ pc = "stats"
    /\ KeyMissing(apiKey)
    /\ video_stats' = "raised"
    /\ pc' = "done"
    /\ outcome' = "raised"
    /\ UNCHANGED <<apiKey, impl, endpoint, max_results, upstream, all_comments,
                   page_token, requests, attempts, httpCalls, sleeps, pageError>>
    /\ UNCHANGED <<sentimentVars, run, session>>

StatsUpstreamError ==
    /\ pc = "stats"
    /\ ~KeyMissing(apiKey)
    /\ httpCalls' = httpCalls + 1
    /\ video_stats' = "raised"
    /\ pc' = "done"
    /\ outcome' = "raised"
    /\ UNCHANGED <<apiKey, impl, endpoint, max_results, upstream, all_comments,
                   page_token, requests, attempts, sleeps, pageError>>
    /\ UNCHANGED <<sentimentVars, run, session>>

StatsFound ==
    /\ pc = "stats"
    /\ ~KeyMissing(apiKey)
    /\ httpCalls' = httpCalls + 1
    /\ video_stats' = "found"
    /\ pc' = "loop"
    /\ UNCHANGED <<apiKey, impl, endpoint, max_results, upstream, all_comments,
                   page_token, outcome, requests, attempts, sleeps, pageError>>
    /\ UNCHANGED <<sentimentVars, run, session>>

\* ------------------------------------------------- fetch_all_comments
\* One iteration whose fetch_comments call raises on the credential check.
PageConfigError ==
    /\ pc = "loop"
    /\ KeyMissing(apiKey)
    /\ attempts' = attempts + 1
    /\ outcome' = OnException(impl, all_comments)
    /\ pc' = "done"
    /\ pageError' = "config"
    /\ UNCHANGED <<apiKey, impl, endpoint, max_results, upstream, all_comments,
                   page_token, requests, httpCalls, sleeps, video_stats>>
    /\ UNCHANGED <<sentimentVars, run, session>>

\* One iteration whose HTTP request (or the decoding of its answer) raises.
PageUpstreamError ==
    /\ pc = "loop"
    /\ ~KeyMissing(apiKey)
    /\ attempts' = attempts + 1
    /\ httpCalls' = httpCalls + 1
    /\ requests' = Append(requests, Request(page_token))
    /\ outcome' = OnException(impl, all_comments)
    /\ pc' = "done"
    /\ pageError' = "upstream"
    /\ UNCHANGED <<apiKey, impl, endpoint, max_results, upstream, all_comments,
                   page_token, sleeps, video_stats>>
    /\ UNCHANGED <<sentimentVars, run, session>>

\* One iteration that got an empty page.
PageEmpty ==
    /\ pc = "loop"
    /\ ~KeyMissing(apiKey)
    /\ LET res == FetchCommentsResult(page_token) IN
        /\ Len(res.comments) = 0
        /\ attempts' = attempts + 1
        /\ httpCalls' = httpCalls + 1
        /\ requests' = Append(requests, Request(page_token))
        /\ outcome' = "returned"
        /\ pc' = "done"
    /\ UNCHANGED <<apiKey, impl, endpoint, max_results, upstream, all_comments,
                   page_token, sleeps, video_stats, pageError>>
    /\ UNCHANGED <<sentimentVars, run, session>>

\* One iteration that reached max_results.
PageReachesMax ==
    /\ pc = "loop"
    /\ ~KeyMissing(apiKey)
    /\ LET res == FetchCommentsResult(page_token)
           acc == Extend(all_comments, res.comments) IN
        /\ Len(res.comments) > 0
        /\ ReachedMax(max_results, acc)
        /\ all_comments' = TrimToMax(max_results, acc)
        /\ attempts' = attempts + 1
        /\ httpCalls' = httpCalls + 1
        /\ requests' = Append(requests, Request(page_token))
        /\ outcome' = "returned"
        /\ pc' = "done"
    /\ UNCHANGED <<apiKey, impl, endpoint, max_results, upstream,
                   page_token, sleeps, video_stats, pageError>>
    /\ UNCHANGED <<sentimentVars, run, session>>

\* One iteration that got the last page.
PageLast ==
    /\ pc = "loop"
    /\ ~KeyMissing(apiKey)
    /\ LET res == FetchCommentsResult(page_token)
           acc == Extend(all_comments, res.comments) IN
        /\ Len(res.comments) > 0
        /\ ~ReachedMax(max_results, acc)
        /\ NextRequestToken(res) = NoToken
        /\ all_comments' = acc
        /\ attempts' = attempts + 1
        /\ httpCalls' = httpCalls + 1
        /\ requests' = Append(requests, Request(page_token))
        /\ outcome' = "returned"
        /\ pc' = "done"
    /\ UNCHANGED <<apiKey, impl, endpoint, max_results, upstream,
                   page_token, sleeps, video_stats, pageError>>
    /\ UNCHANGED <<sentimentVars, run, session>>

\* One iteration that goes on to the next page after the delay.
PageContinue ==
    /\ pc = "loop"
    /\ ~KeyMissing(apiKey)
    /\ LET res == FetchCommentsResult(page_token)
           acc == Extend(all_comments, res.comments) IN
        /\ Len(res.comments) > 0
        /\ ~ReachedMax(max_results, acc)
        /\ NextRequestToken(res) # NoToken
        /\ all_comments' = acc
        /\ page_token' = NextRequestToken(res)
        /\ attempts' = attempts + 1
        /\ httpCalls' = httpCalls + 1
        /\ requests' = Append(requests, Request(page_token))
        /\ sleeps' = sleeps + 1
    /\ UNCHANGED <<apiKey, impl, endpoint, max_results, upstream,
                   pc, outcome, video_stats, pageError>>
    /\ UNCHANGED <<sentimentVars, run, session>>

FetchNext ==
    \/ StatsConfigError
    \/ StatsUpstreamError
    \/ StatsFound
    \/ PageConfigError
    \/ PageUpstreamError
    \/ PageEmpty
    \/ PageReachesMax
    \/ PageLast
    \/ PageContinue

FetchSpec == FetchInit /\ [][FetchNext]_vars

\* Every step is a blocking call (the HTTP request has a timeout, the
\* delay is half a second), so a call that can go on does go on.
FetchLiveSpec == FetchSpec /\ WF_vars(FetchNext)

\* ------------------------------------------------------ sentiment steps
FetchIdle ==
    /\ apiKey = "valid-key"
    /\ impl = "api"
    /\ endpoint = "analyze"
    /\ max_results = [isNone |-> TRUE, v |-> 0]
    /\ upstream = <<>>
    /\ all_comments = <<>>
    /\ page_token = NoToken
    /\ pc = "done"
    /\ outcome = "running"
    /\ requests = <<>>
    /\ attempts = 0
    /\ httpCalls = 0
    /\ sleeps = 0
    /\ video_stats = "unset"
    /\ pageError = "none"

SentimentInit ==
    FetchIdle /\ SentimentIdle /\ run = IdleRun /\ session = NewSession

\* SentimentAnalyzer(): the model loads or fails to load.
Construct ==
    /\ sentiment_pipeline = "unbuilt"
    /\ \E loadOk \in BOOLEAN :
        /\ sentiment_pipeline' = PipelineAfterInit(loadOk)
        /\ analyze_text_sentiment' = BindsEntryPoint(loadOk)
    /\ UNCHANGED call
    /\ UNCHANGED <<fetchVars, run, session>>

\* analyzer._analyze_text_sentiment(text)
ScoreTextCall ==
    /\ sentiment_pipeline # "unbuilt"
    /\ call = IdleCall
    /\ \E t \in ScorerTexts :
        call' = Call("_analyze_text_sentiment", t,
                     ScoreText(sentiment_pipeline, t), NoCombined, "")
    /\ UNCHANGED <<sentiment_pipeline, analyze_text_sentiment>>
    /\ UNCHANGED <<fetchVars, run, session>>

\* analyzer.analyze_text_sentiment(text)
CachedScoreTextCall ==
    /\ sentiment_pipeline # "unbuilt"
    /\ call = IdleCall
    /\ call = IdleCall
    /\ \E t \in ScorerTexts :
        call' = Call("analyze_text_sentiment", t,
                     CachedScoreText(analyze_text_sentiment, sentiment_pipeline, t),
                     NoCombined, "")
    /\ UNCHANGED <<sentiment_pipeline, analyze_text_sentiment>>
    /\ UNCHANGED <<fetchVars, run, session>>

\* analyzer.analyze_comment(comment)
AnalyzeCommentCall ==
    /\ sentiment_pipeline # "unbuilt"
    /\ call = IdleCall
    /\ \E t \in CommentTexts(MaxEmojis) :
        call' = AnalyzeComment(analyze_text_sentiment, sentiment_pipeline, t)
    /\ UNCHANGED <<sentiment_pipeline, analyze_text_sentiment>>
    /\ UNCHANGED <<fetchVars, run, session>>

\* comment['sentiment'] = analyze_sentiment(comment['text']), the step of
\* /api/analyze, /api/sentiment, /api/comments/search and the Streamlit
\* app; the first call builds the analyzer.
TagComment ==
    /\ call = IdleCall
    /\ \E t \in ScorerTexts, loadOk \in BOOLEAN :
        LET first == sentiment_pipeline = "unbuilt"
            pipeline == IF first THEN PipelineAfterInit(loadOk)
                        ELSE sentiment_pipeline
            bound == IF first THEN BindsEntryPoint(loadOk)
                     ELSE analyze_text_sentiment
        IN /\ sentiment_pipeline' = pipeline
           /\ analyze_text_sentiment' = bound
           /\ call' = AnalyzeSentiment(bound, pipeline, t)
           /\ UNCHANGED <<fetchVars, run, session>>

\* analyze_sentiment(text) of the Lambda build.
LambdaAnalyzeSentimentCall ==
    /\ call = IdleCall
    /\ \E t \in ScorerTexts :
        LET r == LambdaAnalyzeSentiment(t) IN
        call' = Call("lambda_analyze_sentiment", t, r, NoCombined, r.label)
    /\ UNCHANGED <<sentiment_pipeline, analyze_text_sentiment>>
    /\ UNCHANGED <<fetchVars, run, session>>

\* The caller takes the result; the analyzer is ready for the next call.
Return ==
    /\ call # IdleCall
    /\ call' = IdleCall
    /\ UNCHANGED <<sentiment_pipeline, analyze_text_sentiment>>
    /\ UNCHANGED <<fetchVars, run, session>>

SentimentNext ==
    \/ Construct
    \/ ScoreTextCall
    \/ CachedScoreTextCall
    \/ AnalyzeCommentCall
    \/ TagComment
    \/ LambdaAnalyzeSentimentCall
    \/ Return

SentimentSpec == SentimentInit /\ [][SentimentNext]_vars

\* =============================================================== claims
\* What the upstream holds for a caller of fetch_comments: the pages up to
\* the first empty one, whose token fetch_comments drops.
RECURSIVE UpstreamHeld(_)
UpstreamHeld(ps) ==
    IF ps = <<>> \/ Head(ps) = <<>> THEN <<>>
    ELSE Head(ps) \o UpstreamHeld(Tail(ps))

FetchReturned == pc = "done" /\ outcome = "returned"

\* C1: with max_results set and no failure, fetch_all_comments returns at
\* most max_results comments, and exactly max_results when the upstream
\* holds at least that many, for every integer max_results.
C1_MaxResultsExact ==
    (FetchReturned /\ pageError = "none" /\ ~max_results.isNone) =>
        /\ Len(all_comments) <= max_results.v
        /\ (Len(UpstreamHeld(upstream)) >= max_results.v
                => Len(all_comments) = max_results.v)

\* The pages the loop had appended when its last request was issued.
PagesBeforeLastRequest == SubSeq(upstream, 1, Len(requests) - 1)

\* C2: in the copies of api.py, app.py and lambda/api.py a page request
\* that raises ends the call with exactly the comments of the earlier pages
\* when there are any, and with the failure when there are none.
C2_PartialResultOnFailure ==
    (pc = "done" /\ pageError # "none" /\ impl \in {"api", "app", "lambda"}) =>
        IF all_comments # <<>>
        THEN /\ outcome = "returned"
             /\ all_comments = Concat(PagesBeforeLastRequest)
        ELSE outcome = "raised"

C2_Witness ==
    /\ pc = "done" /\ pageError = "upstream" /\ impl = "lambda"
    /\ outcome = "returned" /\ Len(requests) = 3 /\ Len(all_comments) >= 2

\* C3: utils.youtube_api.fetch_all_comments returns the accumulated
\* comments when a later page request raises.
C3_UtilsPartialResult ==
    (pc = "done" /\ pageError = "upstream" /\ impl = "utils"
        /\ all_comments # <<>>) => outcome = "returned"

\* The token the upstream returned with the page that request i fetched.
TokenReturnedFor(i) == RawToken(PageIndex(requests[i].pageToken))

\* C4: the accumulated list is always a prefix of the upstream pages joined
\* in token order: the first request carries no token, each later one the
\* token of the page before, and while the loop runs the list is exactly
\* the pages fetched so far.
C4_AccumulatedIsPrefix ==
    /\ IsPrefix(all_comments, Concat(upstream))
    /\ \A i \in 1..Len(requests) :
          requests[i].pageToken =
              IF i = 1 THEN NoToken ELSE TokenReturnedFor(i - 1)
    /\ (pc = "loop" =>
          all_comments = Concat(SubSeq(upstream, 1, Len(requests))))

C4_Witness ==
    /\ FetchReturned /\ Len(requests) = 3 /\ Len(all_comments) >= 4
    /\ all_comments = Concat(upstream)

\* C5: with the credential missing or the placeholder, no HTTP request is
\* ever issued, extract_video_statistics raises, and fetch_all_comments
\* raises after its single call of fetch_comments.
C5_ConfigErrorNotRetried ==
    (apiKey \in {"unset", "", "YOUR_API_KEY"}) =>
        /\ httpCalls = 0
        /\ requests = <<>>
        /\ attempts <= 1
        /\ video_stats # "found"
        /\ (attempts = 1 => pc = "done")
        /\ (pc = "done" => outcome = "raised")

C5_Witness ==
    /\ apiKey = "YOUR_API_KEY" /\ pc = "done" /\ attempts = 1
    /\ pageError = "config" /\ outcome = "raised" /\ httpCalls = 0

\* The weights of the emojis of the table, in order.
RECURSIVE SumOfWeights(_)
SumOfWeights(es) ==
    IF es = <<>> THEN 0 ELSE EMOJI_SENTIMENT_MAP(Head(es)) + SumOfWeights(Tail(es))

\* C6: analyze_comment blends with weight min(0.5, 0.1 * emoji_count), labels
\* positive iff combined > 0.2, negative iff combined < -0.2, neutral
\* otherwise, and without emojis the combined score is the text score.
C6_CombinerFormula ==
    (call.op = "analyze_comment" /\ call.outcome = "ok") =>
        LET es == call.text.emojis
            n == Len(es)
            w == IF n >= 5 THEN 5 ELSE n
            known == SelectSeq(es, InEmojiMap)
            k == IF Len(known) > 0 THEN Len(known) ELSE 1
            \* 1000 * k * ((1 - w/10) * score/100 + (w/10) * average/10)
            v == (10 - w) * call.score * k + 10 * w * SumOfWeights(known)
        IN /\ call.combined.num * 1000 * k = v * call.combined.den
           /\ call.combined.den > 0
           /\ (call.final = "positive") = (v > 200 * k)
           /\ (call.final = "negative") = (v < -200 * k)
           /\ (call.final = "neutral") = (v >= -200 * k /\ v <= 200 * k)
           /\ (n = 0 => 100 * call.combined.num = call.score * call.combined.den)

C6_Witness ==
    /\ call.op = "analyze_comment" /\ call.outcome = "ok"
    /\ Len(call.text.emojis) = 6
    /\ call.text.emojis[1] = "rocket" /\ call.text.emojis[2] = "pouting_face"
    /\ call.score = 60 /\ call.final = "neutral"

\* The label analyze_comment gives the text of the last call.
CombinerLabel ==
    AnalyzeComment(analyze_text_sentiment, sentiment_pipeline, call.text).final

\* C7: the sentiment the entry points attach to a comment is the label of
\* the combiner.
C7_EntryPointsUseCombiner ==
    (call.op = "analyze_sentiment" /\ call.outcome = "ok") =>
        call.final = CombinerLabel

\* C8: the label of the text scorer, and so the sentiment stored by
\* analyze_sentiment, is positive, neutral or negative.
C8_LabelInVocabulary ==
    (call.op \in {"_analyze_text_sentiment", "analyze_text_sentiment",
                  "analyze_sentiment"} /\ call.outcome = "ok") =>
        call.label \in Labels

\* C9: after a failed model load every scoring call through
\* analyze_text_sentiment returns a label of the vocabulary.
C9_FallbackScores ==
    (sentiment_pipeline = "none" /\ IsString(call.text)
        /\ call.op \in {"analyze_text_sentiment", "analyze_sentiment",
                         "analyze_comment"}) =>
        (call.outcome = "ok" /\ call.label \in Labels)

\* C10: for empty, whitespace-only and non-string input the text scorer
\* returns neutral with score 0.0, invokes neither strategy and does not
\* raise.
C10_EmptyInputIsNeutral ==
    (call.op \in {"_analyze_text_sentiment", "lambda_analyze_sentiment"}
        /\ call.text.kind # "str") =>
        /\ call.outcome = "ok"
        /\ call.label = "neutral"
        /\ call.score = 0
        /\ call.invoked = {}

\* ============================================================ text tools
\* The functions below are evaluated one at a time on arguments drawn from
\* bounded sets; run holds the arguments and the value returned.
ToolsInit ==
    FetchIdle /\ SentimentIdle /\ run = IdleRun /\ session = NewSession

\* ------------------------------------------------ analyze_emoji_sentiment
\* analyzer.analyze_emoji_sentiment(emojis), on lists over four emojis of
\* the table and one that the table does not hold.
AnalyzeEmojiSentimentCall ==
    /\ run = IdleRun
    /\ \E es \in UNION {[1..n -> {"smiling_face", "neutral_face",
                                 "confused_face", "pouting_face", "rocket"}] :
                          n \in 0..MaxEmojiArgs} :
        run' = [op |-> "analyze_emoji_sentiment", emojis |-> es,
                score |-> EmojiScore(es)]
    /\ UNCHANGED <<fetchVars, sentimentVars, session>>

\* The caller takes the value.
ReturnRun ==
    /\ run.op # "none"
    /\ run' = IdleRun
    /\ UNCHANGED <<fetchVars, sentimentVars, session>>

\* C11: analyze_emoji_sentiment returns the average of the table weights
\* of the emojis that are in the table, a value in [-1, 1]; it returns 0
\* for the empty list and for a list none of whose emojis is in the table.
C11_EmojiAverage ==
    run.op = "analyze_emoji_sentiment" =>
        LET known == SelectSeq(run.emojis, InEmojiMap) IN
        /\ run.score.den > 0
        /\ known = <<>> => run.score.num = 0
        /\ known # <<>> =>
               run.score.num * Len(known) = SumOfWeights(known) * run.score.den
        /\ -10 * run.score.den <= run.score.num
        /\ run.score.num <= 10 * run.score.den

\* A list mixing recognized and unrecognized emojis: (1.0 - 0.3) / 2.
C11_Witness ==
    /\ run.op = "analyze_emoji_sentiment"
    /\ run.emojis = <<"smiling_face", "rocket", "confused_face">>
    /\ run.score.num * 2 = 7 * run.score.den

\* ------------------------------------------ clean_comment_text, clean_text
\* A raw text is a sequence of pieces: "http" and "://" are the character
\* runs of these names, "s" and "x" are lower-case letters, "X" is an
\* upper-case letter, " " is a whitespace character, "#", "@" and "!" are
\* characters of string.punctuation (as are the three of "://") and
\* "smiling_face" is a character of emoji.EMOJI_DATA.
Pieces == {"http", "s", "://", "x", "X", " ", "#", "@", "!", "smiling_face"}

\* The arguments of the normalizer: a string of up to maxLen pieces, or a
\* value that is no string.
NormalizerArgs(maxLen) ==
    {[isStr |-> TRUE, chars |-> cs] :
        cs \in UNION {[1..n -> Pieces] : n \in 0..maxLen}}
    \cup {[isStr |-> FALSE, chars |-> <<>>]}

\* [c for c in comment_text if c in emoji.EMOJI_DATA]
ExtractEmojis(cs) ==
    LET InEmojiData(c) == c = "smiling_face" IN SelectSeq(cs, InEmojiData)

\* text.lower()
LowerText(cs) == [i \in 1..Len(cs) |-> IF cs[i] = "X" THEN "x" ELSE cs[i]]

\* The index after the longest run of non-whitespace that starts at i (\S+).
RECURSIVE RunEnd(_, _)
RunEnd(cs, i) ==
    IF i > Len(cs) \/ cs[i] = " " THEN i ELSE RunEnd(cs, i + 1)

\* Where the match of https?:\/\/\S+ that starts at i ends, or 0.
UrlMatchEnd(cs, i) ==
    LET afterScheme ==
            IF i + 2 <= Len(cs) /\ cs[i + 1] = "s" /\ cs[i + 2] = "://"
            THEN i + 3
            ELSE IF i + 1 <= Len(cs) /\ cs[i + 1] = "://" THEN i + 2 ELSE 0
    IN IF cs[i] = "http" /\ afterScheme # 0 /\ RunEnd(cs, afterScheme) > afterScheme
       THEN RunEnd(cs, afterScheme)
       ELSE 0

\* re.sub(r"https?:\/\/\S+", "", text), scanning from index i
RECURSIVE RemoveUrls(_, _)
RemoveUrls(cs, i) ==
    IF i > Len(cs) THEN <<>>
    ELSE IF UrlMatchEnd(cs, i) # 0
         THEN RemoveUrls(cs, UrlMatchEnd(cs, i))
         ELSE <<cs[i]>> \o RemoveUrls(cs, i + 1)

\* re.sub(r"#(\S+)", r"\1", text) and the same for "@", scanning from i:
\* the marker goes, the run it starts is copied and not scanned again.
RECURSIVE DropMarker(_, _, _)
DropMarker(cs, marker, i) ==
    IF i > Len(cs) THEN <<>>
    ELSE IF cs[i] = marker /\ RunEnd(cs, i + 1) > i + 1
         THEN SubSeq(cs, i + 1, RunEnd(cs, i + 1) - 1)
              \o DropMarker(cs, marker, RunEnd(cs, i + 1))
         ELSE <<cs[i]>> \o DropMarker(cs, marker, i + 1)

\* A replacement of punctuation that spares "#", as it would if "#" were a
\* key of emoji.EMOJI_DATA.
RECURSIVE ReplacePunctuationButHash(_)
ReplacePunctuationButHash(cs) ==
    IF cs = <<>> THEN <<>>
    ELSE (CASE Head(cs) = "://" -> <<" ", " ", " ">>
            [] Head(cs) \in {"@", "!"} -> <<" ">>
            [] OTHER -> <<Head(cs)>>) \o ReplacePunctuationButHash(Tail(cs))

\* for p in string.punctuation: text = text.replace(p, " ")
RECURSIVE ReplacePunctuation(_)
ReplacePunctuation(cs) ==
    IF cs = <<>> THEN <<>>
    ELSE (CASE Head(cs) = "://" -> <<" ", " ", " ">>
            [] Head(cs) \in {"#", "@", "!"} -> <<" ">>
            [] OTHER -> <<Head(cs)>>) \o ReplacePunctuation(Tail(cs))

\* re.sub(r"\s+", " ", text)
RECURSIVE CollapseSpaces(_)
CollapseSpaces(cs) ==
    IF cs = <<>> THEN <<>>
    ELSE IF Head(cs) = " " /\ Len(cs) > 1 /\ cs[2] = " "
         THEN CollapseSpaces(Tail(cs))
         ELSE <<Head(cs)>> \o CollapseSpaces(Tail(cs))

\* text.strip()
RECURSIVE Strip(_)
Strip(cs) ==
    IF cs = <<>> THEN <<>>
    ELSE IF Head(cs) = " " THEN Strip(Tail(cs))
    ELSE IF cs[Len(cs)] = " " THEN Strip(SubSeq(cs, 1, Len(cs) - 1))
    ELSE cs

\* The steps the two normalizers share, lower() to strip().
NormalizeChars(cs) ==
    Strip(CollapseSpaces(ReplacePunctuation(
        DropMarker(DropMarker(RemoveUrls(LowerText(cs), 1), "#", 1), "@", 1))))

\* fn = "clean_comment_text": SentimentAnalyzer.clean_comment_text, which
\* returns (text, emojis); fn = "clean_text": clean_text of the Lambda
\* build, which returns the text alone.
Normalize(fn, arg) ==
    IF ~arg.isStr THEN [text |-> <<>>, emojis |-> <<>>]
    ELSE [text |-> NormalizeChars(arg.chars),
          emojis |-> IF fn = "clean_comment_text"
                     THEN ExtractEmojis(arg.chars) ELSE <<>>]

NormalizerRun(fn, pass, arg) ==
    [op |-> "normalize", fn |-> fn, pass |-> pass, arg |-> arg,
     out |-> Normalize(fn, arg)]

\* The normalizer is called on a raw text.
NormalizeCall ==
    /\ run = IdleRun
    /\ \E fn \in {"clean_comment_text", "clean_text"}, arg \in NormalizerArgs(MaxTextLen) :
        run' = NormalizerRun(fn, 1, arg)
    /\ UNCHANGED <<fetchVars, sentimentVars, session>>

\* The normalizer is called on the text it has just returned.
NormalizeAgain ==
    /\ run.op = "normalize" /\ run.pass = 1
    /\ run' = NormalizerRun(run.fn, 2, [isStr |-> TRUE, chars |-> run.out.text])
    /\ UNCHANGED <<fetchVars, sentimentVars, session>>

\* C12: the normalizer is idempotent, normalize(normalize(t)) = normalize(t)
\* for the normalized text, and an argument that is no string yields the
\* empty string (and an empty emoji list).
C12_NormalizerIdempotent ==
    run.op = "normalize" =>
        /\ run.pass = 2 => run.out.text = run.arg.chars
        /\ ~run.arg.isStr => run.out = [text |-> <<>>, emojis |-> <<>>]

\* The second call is handed the two words the first one returned.
C12_Witness ==
    /\ run.op = "normalize" /\ run.pass = 2
    /\ run.arg.chars = <<"x", " ", "x">>
    /\ run.out.text = <<"x", " ", "x">>

\* ------------------------------------------------ generate_content_ideas
\* A comment as generate_content_ideas reads it: whether 'text' is present
\* and a string, the suggestions that the request patterns find in the
\* text and that pass the length test (in pattern order), and the likes
\* after the coercion to a number.
IdeaComments ==
    {[textOk |-> FALSE, suggestions |-> <<>>, likes |-> 0]}
    \cup {[textOk |-> TRUE, suggestions |-> sg, likes |-> lk] :
             sg \in {<<>>, <<"Python basics">>, <<"Unit testing">>,
                     <<"Python basics", "Unit testing">>},
             lk \in {0, 5}}

Placeholder(idea) == <<[idea |-> idea, likes |-> 0, source |-> 0]>>

\* The loop over the comments, from comment i on: one row for each
\* suggestion of each comment with a text; source is the comment's id,
\* here its position.
RECURSIVE ContentIdeas(_, _)
ContentIdeas(comments, i) ==
    IF i > Len(comments) THEN <<>>
    ELSE (IF comments[i].textOk
          THEN [k \in 1..Len(comments[i].suggestions) |->
                   [idea |-> comments[i].suggestions[k],
                    likes |-> comments[i].likes, source |-> i]]
          ELSE <<>>) \o ContentIdeas(comments, i + 1)

\* sort_values('likes', ascending=False): rows of equal likes keep their
\* order (the order pandas gives the short frames modelled here). Row i
\* goes to the place after the rows that have more likes and the earlier
\* rows that have as many.
SortByLikes(rows) ==
    LET place(i) ==
            1 + Cardinality({j \in 1..Len(rows) :
                                \/ rows[j].likes > rows[i].likes
                                \/ rows[j].likes = rows[i].likes /\ j < i})
    IN [k \in 1..Len(rows) |-> rows[CHOOSE i \in 1..Len(rows) : place(i) = k]]

\* drop_duplicates(subset=['idea']): the first row of each idea stays.
DropDuplicateIdeas(rows) ==
    LET first(k) == \A j \in 1..(k - 1) : rows[j].idea # rows[k].idea
        RECURSIVE keep(_)
        keep(k) == IF k > Len(rows) THEN <<>>
                   ELSE (IF first(k) THEN <<rows[k]>> ELSE <<>>) \o keep(k + 1)
    IN keep(1)

\* DataFrame.head(n): the first n rows, or all but the last -n when n < 0.
HeadRows(rows, n) ==
    IF n >= 0 THEN SubSeq(rows, 1, Min(n, Len(rows)))
    ELSE SubSeq(rows, 1, Max(0, Len(rows) + n))

\* generate_content_ideas(comments, max_ideas)
GenerateContentIdeas(comments, max_ideas) ==
    IF comments = <<>>
    THEN Placeholder("No comments available for content ideas")
    ELSE IF ContentIdeas(comments, 1) = <<>>
         THEN Placeholder("No content ideas found in comments")
         ELSE HeadRows(DropDuplicateIdeas(SortByLikes(ContentIdeas(comments, 1))),
                       max_ideas)

GenerateContentIdeasCall ==
    /\ run = IdleRun
    /\ \E comments \in UNION {[1..n -> IdeaComments] : n \in 0..MaxComments},
          max_ideas \in (-MaxNegCap)..MaxIdeas :
        run' = [op |-> "generate_content_ideas", comments |-> comments,
                max_ideas |-> max_ideas,
                out |-> GenerateContentIdeas(comments, max_ideas)]
    /\ UNCHANGED <<fetchVars, sentimentVars, session>>

\* C13: generate_content_ideas never returns an empty list: for every
\* comment list and every max_ideas value the result has at least one
\* record, the placeholder when there is no comment or no candidate.
C13_IdeasNeverEmpty ==
    run.op = "generate_content_ideas" => Len(run.out) >= 1

\* The candidate rows of the last call.
Candidates == ContentIdeas(run.comments, 1)

\* C23: whenever a candidate idea survives, the list generate_content_ideas
\* returns is sorted by non-increasing likes, holds no idea text twice,
\* keeps for each idea text an occurrence with the highest likes among its
\* duplicates, and has at most max_ideas records.
C23_SortedUniqueTruncated ==
    (run.op = "generate_content_ideas" /\ Candidates # <<>>) =>
        /\ \A k \in 1..(Len(run.out) - 1) :
              run.out[k].likes >= run.out[k + 1].likes
        /\ \A k, l \in 1..Len(run.out) :
              run.out[k].idea = run.out[l].idea => k = l
        /\ \A k \in 1..Len(run.out) :
              /\ \E c \in 1..Len(Candidates) : Candidates[c] = run.out[k]
              /\ \A c \in 1..Len(Candidates) :
                    Candidates[c].idea = run.out[k].idea
                        => Candidates[c].likes <= run.out[k].likes
        /\ Len(run.out) <= run.max_ideas

\* ------------------------------------------------ mining of one comment
\* A comment text as a sequence of tokens: two of the request patterns
\* (one of them written with a capital), words of one and two letters,
\* whitespace and sentence punctuation.
IdeaTokens == {"Please make", "tutorial on", "a", "bc", " ", "\n", ".", "?"}

DefaultMaxIdeas == 10    \* max_ideas: int = 10

\* str.lower()
LowerToken(t) == IF t = "Please make" THEN "please make" ELSE t

\* len() of a token.
TokenLen(t) ==
    CASE t \in {"please make", "tutorial on", "Please make", "Tutorial on"} -> 11
      [] t \in {"bc", "Bc"} -> 2
      [] OTHER -> 1

IsSpace(t) == t \in {" ", "\n"}

\* str.strip()
RECURSIVE StripSpace(_)
StripSpace(ts) ==
    IF ts = <<>> THEN <<>>
    ELSE IF IsSpace(Head(ts)) THEN StripSpace(Tail(ts))
    ELSE IF IsSpace(ts[Len(ts)]) THEN StripSpace(SubSeq(ts, 1, Len(ts) - 1))
    ELSE ts

\* re.sub(r'[.!?].*$', '', suggestion): "." matches no newline and "$"
\* matches at the end of the string alone (the string was stripped, so it
\* ends with no newline): the match starts at the first punctuation mark
\* that no newline follows.
CutAtPunctuation(ts) ==
    LET starts == {i \in 1..Len(ts) :
                      /\ ts[i] \in {".", "!", "?"}
                      /\ \A j \in (i + 1)..Len(ts) : ts[j] # "\n"}
    IN IF starts = {} THEN ts
       ELSE SubSeq(ts, 1, (CHOOSE i \in starts : \A j \in starts : i <= j) - 1)

\* len(suggestion)
RECURSIVE CharLen(_)
CharLen(ts) == IF ts = <<>> THEN 0 ELSE TokenLen(Head(ts)) + CharLen(Tail(ts))

\* len(suggestion.split())
WordCount(ts) ==
    Cardinality({i \in 1..Len(ts) :
                    ~IsSpace(ts[i]) /\ (i = 1 \/ IsSpace(ts[i - 1]))})

\* suggestion[0].upper() + suggestion[1:]
Capitalize(ts) ==
    [ts EXCEPT ![1] = CASE ts[1] = "a" -> "A"
                        [] ts[1] = "bc" -> "Bc"
                        [] ts[1] = "please make" -> "Please make"
                        [] ts[1] = "tutorial on" -> "Tutorial on"
                        [] OTHER -> ts[1]]

\* The body of the loop over request_patterns for one pattern and the
\* lowered text.
Suggestion(text, pattern) ==
    IF \A i \in 1..Len(text) : text[i] # pattern THEN <<>>
    ELSE LET at == CHOOSE i \in 1..Len(text) :
                      /\ text[i] = pattern
                      /\ \A j \in 1..(i - 1) : text[j] # pattern
             after == StripSpace(SubSeq(text, at + 1, Len(text)))
             suggestion == StripSpace(CutAtPunctuation(after))
         IN IF CharLen(suggestion) > 3 /\ WordCount(suggestion) >= 2
            THEN <<Capitalize(suggestion)>>
            ELSE <<>>

\* The suggestions of one comment, in the order of request_patterns.
MinedSuggestions(text) ==
    LET lowered == [i \in 1..Len(text) |-> LowerToken(text[i])]
    IN Suggestion(lowered, "please make") \o Suggestion(lowered, "tutorial on")

\* generate_content_ideas([comment]) with the default max_ideas.
MineIdeasCall ==
    /\ run = IdleRun
    /\ \E text \in UNION {[1..n -> IdeaTokens] : n \in 0..MaxIdeaTextLen},
          likes \in {10} :
        run' = [op |-> "mine_ideas", text |-> text, likes |-> likes,
                out |-> GenerateContentIdeas(
                            <<[textOk |-> TRUE, likes |-> likes,
                               suggestions |-> MinedSuggestions(text)]>>,
                            DefaultMaxIdeas)]
    /\ UNCHANGED <<fetchVars, sentimentVars, session>>

\* The idea the text after the first occurrence of pattern stands for:
\* cut at the first sentence punctuation, trimmed.
IdeaAfter(text, pattern) ==
    LET lowered == [i \in 1..Len(text) |-> LowerToken(text[i])]
        at == CHOOSE i \in 1..Len(text) :
                 lowered[i] = pattern /\ \A j \in 1..(i - 1) : lowered[j] # pattern
        after == SubSeq(lowered, at + 1, Len(text))
        marks == {i \in 1..Len(after) : after[i] \in {".", "!", "?"}}
        upTo == IF marks = {} THEN Len(after)
                ELSE (CHOOSE i \in marks : \A j \in marks : i <= j) - 1
    IN StripSpace(SubSeq(after, 1, upTo))

\* The ideas a text is to yield.
IdeasOf(text) ==
    {Capitalize(IdeaAfter(text, p)) :
        p \in {q \in {"please make", "tutorial on"} :
                  /\ \E i \in 1..Len(text) : LowerToken(text[i]) = q
                  /\ CharLen(IdeaAfter(text, q)) > 3
                  /\ WordCount(IdeaAfter(text, q)) >= 2}}

\* C22: for each request pattern that occurs in the text of a comment the
\* idea is the text after the occurrence, cut at the first ".", "!" or "?"
\* (in a text of several lines too), trimmed, kept only with more than 3
\* characters and at least 2 words, its first letter a capital, and the
\* record carries the likes and the id of the comment.
C22_IdeaFromPattern ==
    run.op = "mine_ideas" =>
        IF IdeasOf(run.text) = {}
        THEN run.out = Placeholder("No content ideas found in comments")
        ELSE /\ {run.out[k].idea : k \in 1..Len(run.out)} = IdeasOf(run.text)
             /\ \A k \in 1..Len(run.out) :
                   run.out[k].likes = run.likes /\ run.out[k].source = 1

\* --------------------------------------- top_comments, recent_comments
TopCount == 5    \* [:5]

\* Date strings are sequences of digits; Python orders strings by the
\* first position where they differ, a proper prefix before the longer one.
StrGreater(a, b) ==
    \E k \in 1..Len(a) :
        /\ \A j \in 1..(k - 1) : j <= Len(b) /\ a[j] = b[j]
        /\ (k > Len(b) \/ a[k] > b[k])

\* The comments the dashboard lists are built from: likes are numbers by
\* then, dates the strings fetch_comments stored.
DashComments ==
    {[likes |-> 1, date |-> <<2>>], [likes |-> 2, date |-> <<1>>],
     [likes |-> 2, date |-> <<1, 2>>], [likes |-> 1, date |-> <<1, 2>>]}

\* key(x) > key(y) for the two keys of the dashboard: x.get('likes', 0)
\* and x.get('date', '').
KeyGreater(key, x, y) ==
    IF key = "likes" THEN x.likes > y.likes ELSE StrGreater(x.date, y.date)

\* sorted(rows, key=..., reverse=True): stable, rows of equal key keep
\* their order.
SortedDescending(rows, key) ==
    LET place == [i \in 1..Len(rows) |->
                    1 + Cardinality({j \in 1..Len(rows) :
                                        \/ KeyGreater(key, rows[j], rows[i])
                                        \/ ~KeyGreater(key, rows[i], rows[j])
                                           /\ j < i})]
    IN [k \in 1..Len(rows) |-> rows[CHOOSE i \in 1..Len(rows) : place[i] = k]]

\* sorted(comments, key=lambda x: x.get('likes', 0), reverse=True)[:5]
TopComments(comments) ==
    SliceTo(SortedDescending(comments, "likes"), TopCount)

\* A list in ascending order of the date.
RecentCommentsAscending(comments) ==
    LET sorted == SortedDescending(comments, "date")
        n == Len(comments)
    IN SliceTo([k \in 1..n |-> sorted[n + 1 - k]], TopCount)

\* sorted(comments, key=lambda x: x.get('date', ''), reverse=True)[:5]
RecentComments(comments) ==
    SliceTo(SortedDescending(comments, "date"), TopCount)

\* The two lists of the dashboard data; sorted() builds a new list and
\* leaves the comments as they are.
DashboardListsCall ==
    /\ run = IdleRun
    /\ \E comments \in UNION {[1..n -> DashComments] : n \in 0..MaxDashComments} :
        run' = [op |-> "dashboard_lists", comments |-> comments,
                top_comments |-> TopComments(comments),
                recent_comments |-> RecentComments(comments),
                after |-> comments]
    /\ UNCHANGED <<fetchVars, sentimentVars, session>>

\* How often row c occurs in rows.
Occurrences(c, rows) == Cardinality({i \in 1..Len(rows) : rows[i] = c})

\* picked holds min(5, n) rows of all in non-increasing order of the key,
\* and no row left out has a greater key than a row of picked.
PicksGreatest(picked, all, key) ==
    /\ Len(picked) = Min(TopCount, Len(all))
    /\ \A k \in 1..(Len(picked) - 1) :
          ~KeyGreater(key, picked[k + 1], picked[k])
    /\ \A c \in DashComments :
          /\ Occurrences(c, picked) <= Occurrences(c, all)
          /\ Occurrences(c, picked) < Occurrences(c, all)
                => \A k \in 1..Len(picked) : ~KeyGreater(key, c, picked[k])

\* C25: top_comments holds min(5, n) comments in non-increasing order of
\* likes and no omitted comment has more likes than an included one;
\* recent_comments holds min(5, n) comments in non-increasing order of the
\* date string and no omitted comment has a greater date; the comment
\* collection is left as it was.
C25_TopAndRecent ==
    run.op = "dashboard_lists" =>
        /\ PicksGreatest(run.top_comments, run.comments, "likes")
        /\ PicksGreatest(run.recent_comments, run.comments, "date")
        /\ run.after = run.comments

C25_Witness ==
    /\ run.op = "dashboard_lists" /\ Len(run.comments) = 6
    /\ run.comments[1] = [likes |-> 1, date |-> <<1, 2>>]
    /\ run.comments[2] = [likes |-> 2, date |-> <<1>>]
    /\ run.comments[6] = [likes |-> 1, date |-> <<2>>]
    /\ Len(run.top_comments) = 5 /\ Len(run.recent_comments) = 5
    /\ run.top_comments[1] = run.comments[2]
    /\ run.recent_comments[1] = run.comments[6]
    /\ run.recent_comments[5].date = <<1>>

\* --------------------------------------------------------- extract_topics
\* Texts are sequences of words (a "?" is a word of its own); a keyword is
\* in a text when its words are consecutive words of the text.
TOPIC_KEYWORDS(topic) ==
    CASE topic = "tutorial" ->
           {<<"how", "to">>, <<"tutorial">>, <<"guide">>, <<"learn">>,
            <<"step", "by", "step">>, <<"techniques">>}
      [] topic = "review" ->
           {<<"review">>, <<"opinion">>, <<"thoughts", "on">>,
            <<"what", "I", "think">>, <<"assessment">>}
      [] topic = "question" ->
           {<<"question">>, <<"wondering">>, <<"can", "you">>,
            <<"how", "do", "you">>, <<"?">>}
      [] topic = "suggestion" ->
           {<<"suggestion">>, <<"recommend">>, <<"should", "make">>,
            <<"would", "like", "to", "see">>, <<"please", "make">>}
      [] topic = "technical" ->
           {<<"technical">>, <<"software">>, <<"hardware">>, <<"settings">>,
            <<"configuration">>, <<"setup">>}

\* The keys of the topics dict, in insertion order.
TopicOrder == <<"tutorial", "review", "question", "suggestion", "technical">>

\* The comments handed to extract_topics: 'text' is a string of words or
\* is no string.
TopicComments ==
    {[isStr |-> FALSE, words |-> <<>>]}
    \cup {[isStr |-> TRUE, words |-> w] :
             w \in {<<>>,
                    <<"nice", "video">>,
                    <<"How", "to", "setup", "?">>,
                    <<"great", "guide", "and", "tutorial">>,
                    <<"this", "is", "what", "I", "think">>,
                    <<"honest", "Review", "please", "make", "more">>,
                    <<"how", "do", "it">>}}

\* str.lower() on the words above.
LowerWords(words) ==
    [i \in 1..Len(words) |->
        CASE words[i] = "How" -> "how"
          [] words[i] = "I" -> "i"
          [] words[i] = "Review" -> "review"
          [] words[i] = "Tutorial" -> "tutorial"
          [] OTHER -> words[i]]

\* keyword in text
Contains(words, keyword) ==
    \E i \in 1..(Len(words) - Len(keyword) + 1) :
        SubSeq(words, i, i + Len(keyword) - 1) = keyword

\* An increment for each keyword of the topic that the text holds.
TopicHitPerKeyword(comment, topic) ==
    IF ~comment.isStr THEN 0
    ELSE Cardinality({kw \in TOPIC_KEYWORDS(topic) :
                         Contains(LowerWords(comment.words), kw)})

\* What one comment adds to topics[topic].
TopicHit(comment, topic) ==
    IF ~comment.isStr THEN 0
    ELSE IF \E kw \in TOPIC_KEYWORDS(topic) :
                Contains(LowerWords(comment.words), kw)
         THEN 1 ELSE 0

\* topics[topic] after the loop over comments[1..n].
RECURSIVE TopicCounter(_, _, _)
TopicCounter(comments, topic, n) ==
    IF n = 0 THEN 0
    ELSE TopicCounter(comments, topic, n - 1) + TopicHit(comments[n], topic)

\* extract_topics(comments)
ExtractTopics(comments) ==
    IF comments = <<>> THEN <<[name |-> "No Data", value |-> 1]>>
    ELSE LET topics == [k \in 1..Len(TopicOrder) |->
                           [name |-> TopicOrder[k],
                            value |-> TopicCounter(comments, TopicOrder[k],
                                                   Len(comments))]]
         IN IF \A k \in 1..Len(topics) : topics[k].value = 0
            THEN topics \o <<[name |-> "other", value |-> 1]>>
            ELSE topics

ExtractTopicsCall ==
    /\ run = IdleRun
    /\ \E comments \in UNION {[1..n -> TopicComments] : n \in 0..MaxComments} :
        run' = [op |-> "extract_topics", comments |-> comments,
                out |-> ExtractTopics(comments)]
    /\ UNCHANGED <<fetchVars, sentimentVars, session>>

\* C14: extract_topics returns exactly [No Data: 1] for the empty list;
\* otherwise the five counters, each the number of comments whose
\* lower-cased text holds at least one keyword of the category (a comment
\* adds at most 1 to a category and may add to several), plus the
\* category other = 1 exactly when all five counters are zero.
C14_TopicCounters ==
    run.op = "extract_topics" =>
        IF run.comments = <<>>
        THEN run.out = <<[name |-> "No Data", value |-> 1]>>
        ELSE LET holds(i, topic) ==
                     /\ run.comments[i].isStr
                     /\ \E kw \in TOPIC_KEYWORDS(topic) :
                            Contains(LowerWords(run.comments[i].words), kw)
                 count(topic) ==
                     Cardinality({i \in DOMAIN run.comments : holds(i, topic)})
                 allZero == \A k \in 1..5 : count(TopicOrder[k]) = 0
             IN /\ Len(run.out) = IF allZero THEN 6 ELSE 5
                /\ \A k \in 1..5 :
                       run.out[k] = [name |-> TopicOrder[k],
                                     value |-> count(TopicOrder[k])]
                /\ allZero => run.out[6] = [name |-> "other", value |-> 1]

\* One comment holds two tutorial keywords, the other one a tutorial, a
\* question and a technical keyword: tutorial counts 2, not 3.
C14_Witness ==
    /\ run.op = "extract_topics"
    /\ run.comments = <<[isStr |-> TRUE,
                         words |-> <<"great", "guide", "and", "tutorial">>],
                        [isStr |-> TRUE,
                         words |-> <<"How", "to", "setup", "?">>]>>
    /\ run.out[1].value = 2 /\ run.out[3].value = 1 /\ Len(run.out) = 5

\* ------------------------------------------------------- extract_keywords
\* stop_words: stopwords.words('english'), or the minimal list when that
\* corpus is not installed (corpus = FALSE), plus custom_stopwords; each
\* list is restricted to the words of the texts below.
StopWords(corpus) ==
    (IF corpus THEN {"the", "have"} ELSE {"the"}) \cup {"great"}

\* The comments handed to extract_keywords; word_tokenize gives the words
\* of a text one by one.
KeywordComments ==
    {[isStr |-> FALSE, words |-> <<>>]}
    \cup {[isStr |-> TRUE, words |-> w] :
             w \in {<<>>,
                    <<"the", "great", "ok", "4k", "!">>,
                    <<"Tutorial", "lighting", "tutorial">>,
                    <<"have", "camera", "lighting">>,
                    <<"camera", "tutorial", "camera">>}}

\* ' '.join(the texts that are strings), from comment i on, as words.
RECURSIVE AllText(_, _)
AllText(comments, i) ==
    IF i > Len(comments) THEN <<>>
    ELSE (IF comments[i].isStr THEN comments[i].words ELSE <<>>)
         \o AllText(comments, i + 1)

\* filtered_tokens
FilteredTokens(tokens, stop_words) ==
    LET isalpha(word) == word \notin {"4k", "!"}
        longerThanTwo(word) == word \notin {"ok", "4k", "!"}
        keeps(word) == isalpha(word) /\ word \notin stop_words
                       /\ longerThanTwo(word)
    IN SelectSeq(tokens, keeps)

\* Counter(tokens): the distinct words in first-encountered order, each
\* with its number of occurrences.
WordFreq(tokens) ==
    LET first(k) == \A j \in 1..(k - 1) : tokens[j] # tokens[k]
        occurrences(w) == Cardinality({k \in 1..Len(tokens) : tokens[k] = w})
        RECURSIVE items(_)
        items(k) ==
            IF k > Len(tokens) THEN <<>>
            ELSE (IF first(k)
                  THEN <<[word |-> tokens[k], count |-> occurrences(tokens[k])]>>
                  ELSE <<>>) \o items(k + 1)
    IN items(1)

\* The first n items of the counter, in first-encountered order.
MostCommonUnsorted(freq, n) ==
    IF n <= 0 THEN <<>> ELSE SubSeq(freq, 1, Min(n, Len(freq)))

\* Counter.most_common(n): a stable sort by descending count, cut to n;
\* nothing for n <= 0.
MostCommon(freq, n) ==
    LET place(i) ==
            1 + Cardinality({j \in 1..Len(freq) :
                                \/ freq[j].count > freq[i].count
                                \/ freq[j].count = freq[i].count /\ j < i})
        sorted == [k \in 1..Len(freq) |->
                      freq[CHOOSE i \in 1..Len(freq) : place(i) = k]]
    IN IF n <= 0 THEN <<>> ELSE SubSeq(sorted, 1, Min(n, Len(freq)))

NoData == <<[word |-> "nodata", count |-> 1]>>

\* extract_keywords(comments, top_n); corpus and punkt tell whether the
\* NLTK stopwords corpus and tokenizer data are installed (word_tokenize
\* raises LookupError without the latter).
ExtractKeywords(comments, top_n, corpus, punkt) ==
    IF comments = <<>> THEN NoData
    ELSE IF AllText(comments, 1) = <<>> THEN NoData
    ELSE IF ~punkt THEN <<[word |-> "error", count |-> 1]>>
    ELSE LET results ==
                 MostCommon(WordFreq(FilteredTokens(
                     LowerWords(AllText(comments, 1)), StopWords(corpus))), top_n)
         IN IF results = <<>> THEN NoData ELSE results

ExtractKeywordsCall ==
    /\ run = IdleRun
    /\ \E comments \in UNION {[1..n -> KeywordComments] : n \in 0..MaxComments},
          top_n \in (-MaxNegCap)..MaxTopN,
          corpus \in BOOLEAN, punkt \in BOOLEAN :
        run' = [op |-> "extract_keywords", comments |-> comments,
                top_n |-> top_n, corpus |-> corpus, punkt |-> punkt,
                out |-> ExtractKeywords(comments, top_n, corpus, punkt)]
    /\ UNCHANGED <<fetchVars, sentimentVars, session>>

\* The tokens of the run's comments that pass the filter with the given
\* stopword set.
Surviving(stop) ==
    LET all == LowerWords(AllText(run.comments, 1))
        passes(w) == /\ w \notin {"4k", "!"}
                     /\ w \notin {"ok", "4k", "!"}
                     /\ w \notin stop
    IN SelectSeq(all, passes)

\* The pairs are ranked and counted as the claim says, over the given
\* surviving tokens.
RankedOver(surviving) ==
    LET occurrences(w) ==
            Cardinality({k \in 1..Len(surviving) : surviving[k] = w})
        firstAt(w) == CHOOSE k \in 1..Len(surviving) :
                         /\ surviving[k] = w
                         /\ \A j \in 1..(k - 1) : surviving[j] # w
    IN /\ \A i \in 1..Len(run.out) :
             /\ occurrences(run.out[i].word) >= 1
             /\ run.out[i].count = occurrences(run.out[i].word)
       /\ \A i \in 1..(Len(run.out) - 1) :
             \/ run.out[i].count > run.out[i + 1].count
             \/ /\ run.out[i].count = run.out[i + 1].count
                /\ firstAt(run.out[i].word) < firstAt(run.out[i + 1].word)

MaxAspectComments == 2

\* COMMON_ASPECTS restricted to three of its aspects and four of their
\* terms.
Aspects == {"content", "audio", "length"}
COMMON_ASPECTS(aspect) ==
    CASE aspect = "content" -> {"video"}
      [] aspect = "audio" -> {"audio", "sound"}
      [] OTHER -> {"long"}

\* The keys of the dictionary identify_aspects returns, for a text in which
\* these terms of the table occur: an aspect gets a key when one of its
\* terms is appended.
IdentifyAspects(terms) ==
    {aspect \in Aspects : COMMON_ASPECTS(aspect) \cap terms # {}}

\* The terms that occur in the comments of the model.
AspectMentions ==
    {{}, {"video"}, {"audio", "sound"}, {"video", "long"}}

\* The texts of the comments: the classifier's confidence is at the
\* threshold or just above it, and five pouting faces pull the score down.
AspectTexts ==
    {[kind |-> "str", polarity |-> 0, mraises |-> FALSE,
      mlabel |-> "POSITIVE", mscore |-> sc, emojis |-> es] :
        sc \in {20, 21},
        es \in {<<>>, [i \in 1..5 |-> "pouting_face"]}}

\* A comment as analyze_comment leaves it on an analyzer whose model is
\* loaded: comment['sentiment'] and comment['sentiment_data'].
AnalysedComment(t, terms) ==
    LET c == AnalyzeComment(TRUE, "loaded", t) IN
    [analysed |-> TRUE, sentiment |-> c.final, combined_score |-> c.combined,
     aspects |-> IdentifyAspects(terms)]

\* A comment without the 'sentiment_data' key.
RawComment ==
    [analysed |-> FALSE, sentiment |-> "", combined_score |-> NoCombined,
     aspects |-> {}]

AspectComments ==
    {AnalysedComment(t, terms) : t \in AspectTexts, terms \in AspectMentions}
    \cup {RawComment}

\* aspect_sentiments[aspect] after the loop over the comments.
RECURSIVE AspectScores(_, _)
AspectScores(comments, aspect) ==
    IF comments = <<>> THEN <<>>
    ELSE LET comment == Head(comments)
             rest == AspectScores(Tail(comments), aspect)
         IN IF comment.analysed /\ aspect \in comment.aspects
            THEN <<comment.combined_score>> \o rest
            ELSE rest

\* s > 0.2, -0.2 <= s <= 0.2 and s < -0.2 on a score num/den.
IsPositiveScore(s) == 100 * s.num > CombinedThreshold * s.den
IsNeutralScoreStrict(s) ==
    /\ -CombinedThreshold * s.den < 100 * s.num
    /\ 100 * s.num < CombinedThreshold * s.den
IsNeutralScore(s) ==
    /\ -CombinedThreshold * s.den <= 100 * s.num
    /\ 100 * s.num <= CombinedThreshold * s.den
IsNegativeScore(s) == 100 * s.num < -CombinedThreshold * s.den

RECURSIVE Gcd(_, _)
Gcd(a, b) == IF b = 0 THEN a ELSE Gcd(b, a % b)

\* The fraction num/den in lowest terms.
Lowest(num, den) ==
    LET g == Gcd(IF num < 0 THEN -num ELSE num, den)
    IN [num |-> num \div g, den |-> den \div g]

\* sum(scores), as a fraction in lowest terms.
RECURSIVE SumScores(_)
SumScores(scores) ==
    IF scores = <<>> THEN [num |-> 0, den |-> 1]
    ELSE LET s == Head(scores)
             rest == SumScores(Tail(scores))
         IN Lowest(s.num * rest.den + rest.num * s.den, s.den * rest.den)

\* SentimentAnalyzer.get_aspect_based_sentiment: a share is the fraction
\* num/den.
GetAspectBasedSentiment(comments) ==
    [aspect \in {a \in Aspects : AspectScores(comments, a) # <<>>} |->
        LET scores == AspectScores(comments, aspect)
            total == SumScores(scores)
            ids == 1..Len(scores)
            share(hits) == [num |-> Cardinality(hits), den |-> Len(scores)]
        IN [average_score |-> Lowest(total.num, total.den * Len(scores)),
            positive |-> share({i \in ids : IsPositiveScore(scores[i])}),
            neutral |-> share({i \in ids : IsNeutralScore(scores[i])}),
            negative |-> share({i \in ids : IsNegativeScore(scores[i])}),
            mention_count |-> Len(scores)]]

\* analyzer.get_aspect_based_sentiment(comments), on comments some of
\* which analyze_comment has analysed.
AspectSentimentCall ==
    /\ run = IdleRun
    /\ \E n \in 0..MaxAspectComments :
        \E comments \in [1..n -> AspectComments] :
            run' = [op |-> "get_aspect_based_sentiment",
                    comments |-> comments,
                    out |-> GetAspectBasedSentiment(comments)]
    /\ UNCHANGED <<fetchVars, sentimentVars, session>>

ToolsNext ==
    \/ AnalyzeEmojiSentimentCall
    \/ ExtractKeywordsCall
    \/ ExtractTopicsCall
    \/ GenerateContentIdeasCall
    \/ MineIdeasCall
    \/ DashboardListsCall
    \/ AspectSentimentCall
    \/ NormalizeCall
    \/ NormalizeAgain
    \/ ReturnRun

ToolsSpec == ToolsInit /\ [][ToolsNext]_vars

\* ========================================================== entry points
\* A request is handled in one step; run holds the handler, the state of
\* the world it met and the response.

\* A count as the upstream sends it: absent, a number, a string that
\* int() parses, a string that it does not, or null.
RawCount(kind) ==
    [kind |-> kind,
     v |-> CASE kind = "int" -> 3 [] kind = "numstr" -> 2 [] OTHER -> 0]

IsNumber(x) == x.kind = "int"

\* try: int(x) / except (ValueError, TypeError): 0, with x.get(..., 0)
\* before it.
IntOrZero(x) ==
    IF x.kind \in {"int", "numstr"} THEN [kind |-> "int", v |-> x.v]
    ELSE [kind |-> "int", v |-> 0]

\* The texts of the fetched comments: strings the classifier labels
\* POSITIVE, NEGATIVE, NEUTRAL or LABEL_1 with confidence 0.99.
EndpointTexts ==
    {[kind |-> "str", polarity |-> pl[1], mraises |-> FALSE,
      mlabel |-> pl[2], mscore |-> 99, emojis |-> <<>>] :
        pl \in {<<21, "POSITIVE">>, <<-21, "NEGATIVE">>, <<0, "NEUTRAL">>,
                <<0, "LABEL_1">>}}

\* The comment fetch_comments builds from an upstream item.
FetchedComment(item) ==
    [text |-> item.text,
     likes |-> IntOrZero(item.likeCount),
     reply_count |-> IF item.totalReplyCount.kind = "missing"
                     THEN [kind |-> "int", v |-> 0]
                     ELSE item.totalReplyCount]

\* What a request meets: the credential, whether the upstream knows the
\* video ("found", "none") or is unreachable ("down"), whether the handler
\* body raises an exception it does not expect, whether the sentiment
\* model loads, and the comment items of the video, at most maxItems.
Worlds(maxItems) ==
    {[key |-> k, video |-> v, fault |-> f, loadOk |-> TRUE, items |-> <<>>] :
        k \in Keys, v \in {"found", "none", "down"}, f \in BOOLEAN}
    \cup
    {[key |-> "valid-key", video |-> "found", fault |-> FALSE,
      loadOk |-> l, items |-> it] :
        l \in BOOLEAN,
        it \in UNION {[1..n ->
                         [text : EndpointTexts,
                          likeCount : {RawCount(k) :
                              k \in {"int", "numstr", "badstr"}},
                          totalReplyCount : {RawCount(k) :
                              k \in {"missing", "int", "numstr", "null"}}]] :
                        n \in 0..maxItems}}

\* Why extract_video_statistics / fetch_all_comments raise in this world,
\* or "none".
Failure(w) ==
    IF KeyMissing(w.key) THEN "config"
    ELSE IF w.fault THEN "internal"
    ELSE IF w.video = "none" THEN "not_found"
    ELSE IF w.video = "down" THEN "upstream"
    ELSE "none"

\* round((v / total) * 100) if total else 0: round() rounds a half to the
\* even neighbour; the float quotient gives the same integer as the exact
\* one for every total below 40.
RoundPercent(v, total) ==
    IF total = 0 THEN 0
    ELSE LET q == (100 * v) \div total
             r == (100 * v) % total
         IN IF 2 * r < total THEN q
            ELSE IF 2 * r > total THEN q + 1
            ELSE IF q % 2 = 0 THEN q ELSE q + 1

NoCounts == [positive |-> 0, neutral |-> 0, negative |-> 0]

\* A response: status is the HTTP status (0 for the Streamlit app, which
\* has none), cause the kind of failure behind an error, message whether
\* the body carries a 'message' / 'error_message' field.
Response(ok, status, cause, message, fetched, comments, counts) ==
    [ok |-> ok, status |-> status, cause |-> cause, message |-> message,
     fetched |-> fetched, comments |-> comments, counts |-> counts,
     percentages |->
        LET total == counts.positive + counts.neutral + counts.negative
        IN [k \in {"positive", "neutral", "negative"} |->
               RoundPercent(counts[k], total)]]

ErrorResponse(status, cause) ==
    Response(FALSE, status, cause, FALSE, <<>>, <<>>, NoCounts)

\* get_video_info of api.py and of the Lambda build.
VideoInfoResponse(build, w) ==
    LET f == Failure(w) IN
    IF f = "config" THEN ErrorResponse(503, f)
    ELSE IF f = "internal" THEN ErrorResponse(500, f)
    ELSE IF f \in {"not_found", "upstream"} THEN ErrorResponse(400, f)
    ELSE Response(TRUE, 200, "none", FALSE, <<>>, <<>>, NoCounts)

\* get_comments of api.py and of the Lambda build.
CommentsResponse(build, w) ==
    LET f == Failure(w)
        fetched == [i \in 1..Len(w.items) |-> FetchedComment(w.items[i])]
    IN IF f # "none" THEN ErrorResponse(500, f)
       ELSE Response(TRUE, 200, "none", fetched = <<>>, fetched, fetched,
                     NoCounts)

\* analyze_video of api.py and of the Lambda build, and the analysis of
\* the Streamlit app (build = "app").
AnalyzeResponse(build, w) ==
    LET f == Failure(w)
        errorStatus == IF build = "app" THEN 0 ELSE 500
        okStatus == IF build = "app" THEN 0 ELSE 200
        fetched == [i \in 1..Len(w.items) |-> FetchedComment(w.items[i])]
        tag(t) ==
            IF build = "lambda"
            THEN LET r == LambdaAnalyzeSentiment(t)
                 IN [outcome |-> r.outcome, label |-> r.label]
            ELSE LET c == AnalyzeSentiment(BindsEntryPoint(w.loadOk),
                                           PipelineAfterInit(w.loadOk), t)
                 IN [outcome |-> c.outcome, label |-> c.final]
        comments ==
            [i \in 1..Len(fetched) |->
                [text |-> fetched[i].text,
                 sentiment |-> tag(fetched[i].text).label,
                 likes |-> IntOrZero(fetched[i].likes),
                 reply_count |-> IF build = "app" THEN fetched[i].reply_count
                                 ELSE IntOrZero(fetched[i].reply_count)]]
        count(label) ==
            Cardinality({i \in 1..Len(comments) : comments[i].sentiment = label})
    IN IF f # "none" THEN ErrorResponse(errorStatus, f)
       ELSE IF fetched = <<>>
       THEN Response(TRUE, okStatus, "none", TRUE, <<>>, <<>>, NoCounts)
       ELSE IF \E i \in 1..Len(fetched) : tag(fetched[i].text).outcome = "raised"
       THEN ErrorResponse(errorStatus, "internal")
       ELSE IF \E i \in 1..Len(comments) : ~IsNumber(comments[i].reply_count)
       THEN [ErrorResponse(errorStatus, "internal") EXCEPT
                !.fetched = fetched, !.comments = comments]
       ELSE Response(TRUE, okStatus, "none", FALSE, fetched, comments,
                     [positive |-> count("positive"),
                      neutral |-> count("neutral"),
                      negative |-> count("negative")])

Respond(handler, build, w) ==
    CASE handler = "video_info" -> VideoInfoResponse(build, w)
      [] handler = "comments" -> CommentsResponse(build, w)
      [] handler = "analyze" -> AnalyzeResponse(build, w)

Handled(handler, build, w) ==
    [op |-> "request", handler |-> handler, build |-> build, world |-> w,
     response |-> Respond(handler, build, w)]

EndpointInit ==
    FetchIdle /\ SentimentIdle /\ run = IdleRun /\ session = NewSession

VideoInfoRequest ==
    /\ run = IdleRun
    /\ \E build \in {"api", "lambda"}, w \in Worlds(MaxComments) :
        /\ w.items = <<>> /\ w.loadOk
        /\ run' = Handled("video_info", build, w)
    /\ UNCHANGED <<fetchVars, sentimentVars, session>>

CommentsRequest ==
    /\ run = IdleRun
    /\ \E build \in {"api", "lambda"}, w \in Worlds(MaxComments) :
        /\ w.loadOk
        /\ run' = Handled("comments", build, w)
    /\ UNCHANGED <<fetchVars, sentimentVars, session>>

AnalyzeRequest ==
    /\ run = IdleRun
    /\ \E build \in {"api", "lambda", "app"}, w \in Worlds(MaxComments) :
        run' = Handled("analyze", build, w)
    /\ UNCHANGED <<fetchVars, sentimentVars, session>>

\* ------------------------------------------- fetch_comments: the date
\* publishedAt as the upstream sends it: a timestamp fromisoformat reads
\* (v orders the timestamps), a string it does not read, no key at all, or
\* a JSON value that is no string (null, a number).
RawDates ==
    {[kind |-> "iso", v |-> n] : n \in 1..2}
    \cup {[kind |-> k, v |-> 0] : k \in {"malformed", "missing", "nonstr"}}

\* date_str = snippet.get("publishedAt", ""), then
\* fromisoformat(date_str.replace("Z", "+00:00")).strftime(...); on
\* ValueError (and, in the copy of the SAM build, AttributeError) the date
\* is date_str. A value that is no string has no replace().
ParseDate(copy, raw) ==
    CASE raw.kind = "iso" ->
            [raised |-> FALSE, date |-> [kind |-> "formatted", v |-> raw.v]]
      [] raw.kind = "missing" ->
            [raised |-> FALSE, date |-> [kind |-> "empty", v |-> 0]]
      [] raw.kind = "nonstr" -> [raised |-> copy = "utils", date |-> raw]
      [] OTHER -> [raised |-> FALSE, date |-> raw]

\* The loop over the items of a page; an exception that leaves it is
\* re-raised as ValueError by the handler around the request.
FetchCommentsDates(copy, dates) ==
    LET parsed == [i \in 1..Len(dates) |-> ParseDate(copy, dates[i])]
    IN IF \E i \in 1..Len(dates) : parsed[i].raised
       THEN [outcome |-> "raised", comments |-> <<>>]
       ELSE [outcome |-> "returned",
             comments |-> [i \in 1..Len(dates) |-> [date |-> parsed[i].date]]]

FetchCommentsCall ==
    /\ run = IdleRun
    /\ \E copy \in {"utils", "sam"},
          dates \in UNION {[1..n -> RawDates] : n \in 1..MaxComments} :
        run' = [op |-> "fetch_comments", copy |-> copy, dates |-> dates,
                result |-> FetchCommentsDates(copy, dates)]
    /\ UNCHANGED <<fetchVars, sentimentVars, session>>

EndpointNext ==
    \/ FetchCommentsCall
    \/ VideoInfoRequest
    \/ CommentsRequest
    \/ AnalyzeRequest
    \/ ReturnRun

EndpointSpec == EndpointInit /\ [][EndpointNext]_vars

\* An analysis came back for a collection that is not empty.
Analyzed ==
    /\ run.op = "request" /\ run.handler = "analyze"
    /\ run.response.ok /\ run.response.comments # <<>>

\* C16: after every comment of a collection has been tagged by the
\* sentiment step of an analysis entry point, the positive, neutral and
\* negative counts sum to the size of the collection.
C16_CountsSumToSize ==
    Analyzed =>
        run.response.counts.positive + run.response.counts.neutral
            + run.response.counts.negative = Len(run.response.comments)

\* C17: for a tagged collection that is not empty the three rounded
\* percentages are each in 0..100 and sum to 99, 100 or 101; when the
\* sentiment total is zero all three are 0.
C17_PercentagesSum ==
    (run.op = "request" /\ run.handler = "analyze" /\ run.response.ok) =>
        LET p == run.response.percentages
            c == run.response.counts
            sum == p["positive"] + p["neutral"] + p["negative"]
        IN /\ \A k \in DOMAIN p : p[k] >= 0 /\ p[k] <= 100
           /\ run.response.comments # <<>> => sum >= 99 /\ sum <= 101
           /\ c.positive + c.neutral + c.negative = 0
                 => \A k \in DOMAIN p : p[k] = 0

\* C18: every comment that fetch_comments produces and that an entry
\* point returns or aggregates has likes and reply_count of a numeric
\* type, whatever the upstream sent, so that summing them never fails.
C18_CountsNumeric ==
    run.op = "request" =>
        /\ \A i \in 1..Len(run.response.fetched) :
              /\ IsNumber(run.response.fetched[i].likes)
              /\ IsNumber(run.response.fetched[i].reply_count)
        /\ \A i \in 1..Len(run.response.comments) :
              /\ IsNumber(run.response.comments[i].likes)
              /\ IsNumber(run.response.comments[i].reply_count)

\* C19: for every endpoint a configuration error, a not-found condition
\* and an internal failure each give an error response, and the status of
\* the response differs between the three kinds.
C19_ErrorKindsDistinct ==
    (/\ run.op = "request" /\ run.build \in {"api", "lambda"}
     /\ run.response.cause \in {"config", "not_found", "internal"}) =>
        /\ ~run.response.ok /\ run.response.status >= 400
        /\ \A w \in Worlds(0) :
              LET other == Respond(run.handler, run.build, w) IN
              (/\ other.cause \in {"config", "not_found", "internal"}
               /\ other.cause # run.response.cause)
                  => other.status # run.response.status

\* C20: when the upstream reports no comments, or no such video, the
\* entry point answers with a successful empty result that carries a
\* message field, not with an error.
C20_NotFoundIsNoError ==
    (/\ run.op = "request" /\ ~KeyMissing(run.world.key) /\ ~run.world.fault
     /\ \/ run.world.video = "none"
        \/ run.world.video = "found" /\ run.world.items = <<>>
     /\ run.handler \in {"comments", "analyze"}) =>
        /\ run.response.ok /\ run.response.message
        /\ run.response.comments = <<>>

\* ================================================== pagination, again
\* What one iteration of the loop does with the page it fetched, read off
\* the loop body line by line.
IterationInOrder ==
    LET idx == IF page_token = NoToken THEN 1 ELSE page_token
        page == upstream[idx]
        token == IF page = <<>> \/ idx >= Len(upstream) THEN NoToken
                 ELSE idx + 1
        acc == all_comments \o page
        stops(result) ==
            /\ pc' = "done" /\ outcome' = "returned"
            /\ all_comments' = result
            /\ sleeps' = sleeps /\ page_token' = page_token
    IN /\ requests' = Append(requests, Request(page_token))
       /\ IF page = <<>> THEN stops(all_comments)
          ELSE IF ~max_results.isNone /\ Len(acc) >= max_results.v
               THEN stops(SliceTo(acc, max_results.v))
          ELSE IF token = NoToken THEN stops(acc)
          ELSE /\ pc' = "loop" /\ outcome' = "running"
               /\ all_comments' = acc
               /\ sleeps' = sleeps + 1 /\ page_token' = token

\* The delays taken: one between any two consecutive requests, none after
\* the last one.
DelaysBetweenRequests ==
    sleeps = IF pc = "loop" /\ requests # <<>> THEN Len(requests)
             ELSE Max(Len(requests) - 1, 0)

\* C21: after each fetched page the loop stops on an empty page, else
\* truncates and stops when the accumulated count reached max_results,
\* else stops when there is no continuation token, else takes the delay
\* and goes on; the delay is taken once between two consecutive requests
\* and never after the last, and an empty page stops the loop even when
\* the upstream sent a token with it.
C21_StopOrder ==
    /\ []DelaysBetweenRequests
    /\ [][(pc = "loop" /\ attempts' = attempts + 1 /\ pageError' = "none")
            => IterationInOrder]_vars

C21_Witness ==
    /\ FetchReturned /\ Len(upstream) = 3 /\ upstream[2] = <<>>
    /\ Len(requests) = 2 /\ sleeps = 1 /\ max_results.isNone
    /\ pageError = "none"
    /\ all_comments = upstream[1]

\* C24: a comment whose publish date cannot be parsed (a malformed
\* string, no date, a value that is no string) never makes the page fetch
\* fail: the comment keeps the upstream value as its date and the comments
\* of the page are returned.
C24_BadDateNotFatal ==
    run.op = "fetch_comments" =>
        /\ run.result.outcome = "returned"
        /\ Len(run.result.comments) = Len(run.dates)
        /\ \A i \in 1..Len(run.dates) :
              /\ run.dates[i].kind \in {"malformed", "nonstr"}
                    => run.result.comments[i].date = run.dates[i]
              /\ run.dates[i].kind = "missing"
                    => run.result.comments[i].date.kind = "empty"

\* C26: for a comment without emojis the final sentiment analyze_comment
\* assigns is never of the polarity opposite to the label of the text
\* scorer: negative never becomes positive, positive never negative.
C26_NoPolarityFlip ==
    (call.op = "analyze_comment" /\ call.outcome = "ok"
        /\ call.text.emojis = <<>>) =>
        /\ ~(call.label = "negative" /\ call.final = "positive")
        /\ ~(call.label = "positive" /\ call.final = "negative")

\* The upstream answered request i with a page that holds comments and
\* with the token of a further page.
WentOn(i) ==
    LET idx == PageIndex(requests[i].pageToken)
    IN upstream[idx] # <<>> /\ RawToken(idx) # NoToken

\* C27: with max_results set fetch_all_comments ends after at most
\* max(1, max_results) page requests, whatever the upstream returns;
\* without it the call ends with the first request that meets an empty
\* page, a page without token or a failure; no page request is issued
\* after the end.
C27_BoundedRequests ==
    /\ [](~max_results.isNone => Len(requests) <= Max(1, max_results.v))
    /\ [](max_results.isNone =>
            /\ \A i \in 1..(Len(requests) - 1) : WentOn(i)
            /\ (pc = "loop" /\ requests # <<>>) => WentOn(Len(requests))
            /\ (pc = "done" /\ requests # <<>> /\ pageError = "none")
                  => ~WentOn(Len(requests)))
    /\ [][pc = "done" => requests' = requests]_vars
    /\ <>(pc = "done")

C27_Witness ==
    /\ FetchReturned /\ pageError = "none"
    /\ ~max_results.isNone /\ max_results.v = 3
    /\ Len(requests) = 3 /\ Len(all_comments) = 3

\* ========================================================= Streamlit app
\* Every action is one interaction followed by the run of app.py that it
\* triggers, down to the view the run draws.
Videos == {"A", "B"}
PerPageOptions == {10, 20, 50, 100}

\* The comments of an analysed video, by sentiment.
CommentSets(v) ==
    {[video |-> v, positive |-> a, neutral |-> b, negative |-> c] :
        a \in {0, MaxPerSentiment}, b \in {0, MaxPerSentiment},
        c \in {MaxPerSentiment}}

\* len(filtered_comments): the comments of the selected sentiments, and of
\* those the ones that hold the search term when there is one.
TotalFiltered(s) ==
    LET of(label) ==
            IF label \notin s.widgets.sentiment_filter THEN 0
            ELSE IF s.widgets.search_term
                 THEN Min(s.comments[label], MaxHits)
                 ELSE s.comments[label]
    IN of("positive") + of("neutral") + of("negative")

\* math.ceil(total_filtered / comments_per_page)
TotalPages(total, per_page) == (total + per_page - 1) \div per_page

\* render_comments_view from the filter on: with more than one page the
\* stored page_number is used as it is, otherwise it is set to 1.
DrawExplorer(s) ==
    LET total == TotalFiltered(s)
        per_page == s.widgets.comments_per_page
        pages == TotalPages(total, per_page)
        page_number == IF s.page_number = 0 THEN 1 ELSE s.page_number
        start_idx == (page_number - 1) * per_page
        end_idx == Min(start_idx + per_page, total)
    IN IF pages > 1
       THEN [s EXCEPT !.explorer = TRUE, !.total_filtered = total,
                      !.total_pages = pages, !.page_number = page_number,
                      !.shown = Max(end_idx - start_idx, 0)]
       ELSE [s EXCEPT !.explorer = TRUE, !.total_filtered = total,
                      !.total_pages = pages, !.page_number = 1,
                      !.shown = total]

\* The end of a run of app.py: the explorer is drawn when there is
\* dashboard data and the comments view is selected; widgets that are not
\* drawn lose their state, and so does the navigation radio that sets
\* current_view, which is drawn with dashboard data only and starts at
\* the overview.
DrawView(s) ==
    IF s.dashboard_data # "" /\ s.current_view = "comments"
    THEN DrawExplorer(s)
    ELSE [s EXCEPT !.explorer = FALSE, !.widgets = DefaultWidgets,
                   !.total_filtered = 0, !.total_pages = 0, !.shown = 0,
                   !.current_view =
                        IF s.dashboard_data = "" THEN "overview" ELSE @]

\* reset_analysis(): video_id is not among the fields it clears.
ResetAnalysis(s) ==
    [s EXCEPT !.comments = NoComments, !.dashboard_data = "",
              !.video_stats = "", !.error_message = FALSE]

\* The submit branch of the form for video v. how tells where it ends: the
\* URL is not valid, extract_video_statistics raises, fetch_all_comments
\* raises, there are no comments, the analysis raises after the comments
\* were stored, or the dashboard data is stored.
SubmitAnalysis(s, v, how, comments) ==
    CASE how = "invalid_url" -> [s EXCEPT !.error_message = TRUE]
      [] how = "stats_raise" ->
            [s EXCEPT !.video_id = v, !.error_message = TRUE]
      [] how \in {"fetch_raise", "no_comments"} ->
            [s EXCEPT !.video_id = v, !.video_stats = v,
                      !.error_message = TRUE]
      [] how = "analysis_raise" ->
            [s EXCEPT !.video_id = v, !.video_stats = v,
                      !.comments = comments, !.error_message = TRUE]
      [] OTHER ->
            [s EXCEPT !.video_id = v, !.video_stats = v,
                      !.comments = comments, !.dashboard_data = v]

AppInit ==
    FetchIdle /\ SentimentIdle /\ run = IdleRun /\ session = NewSession

Analyse ==
    /\ \E v \in Videos,
          how \in {"invalid_url", "stats_raise", "fetch_raise", "no_comments",
                   "analysis_raise", "stored"} :
          \E comments \in CommentSets(v) :
             session' = DrawView(SubmitAnalysis(session, v, how, comments))
    /\ UNCHANGED <<fetchVars, sentimentVars, run>>

Reset ==
    /\ session' = DrawView(ResetAnalysis(session))
    /\ UNCHANGED <<fetchVars, sentimentVars, run>>

\* The navigation, drawn when there is dashboard data.
SelectView ==
    /\ session.dashboard_data # ""
    /\ \E view \in {"overview", "comments"} :
          /\ view # session.current_view
          /\ session' = DrawView([session EXCEPT !.current_view = view])
    /\ UNCHANGED <<fetchVars, sentimentVars, run>>

ChangeSentimentFilter ==
    /\ session.explorer
    /\ \E f \in SUBSET {"positive", "neutral", "negative"} :
          /\ f # session.widgets.sentiment_filter
          /\ session' =
                DrawView([session EXCEPT !.widgets.sentiment_filter = f])
    /\ UNCHANGED <<fetchVars, sentimentVars, run>>

ChangeSearchTerm ==
    /\ session.explorer
    /\ session' = DrawView([session EXCEPT !.widgets.search_term = ~@])
    /\ UNCHANGED <<fetchVars, sentimentVars, run>>

ChangeCommentsPerPage ==
    /\ session.explorer
    /\ \E n \in PerPageOptions :
          /\ n # session.widgets.comments_per_page
          /\ session' =
                DrawView([session EXCEPT !.widgets.comments_per_page = n])
    /\ UNCHANGED <<fetchVars, sentimentVars, run>>

\* The Prev button is drawn with more than one page and is enabled when
\* page_number > 1.
ClickPrev ==
    /\ session.explorer /\ session.total_pages > 1
    /\ ~(session.page_number <= 1)
    /\ session' = DrawView([session EXCEPT !.page_number = @ - 1])
    /\ UNCHANGED <<fetchVars, sentimentVars, run>>

\* The Next button is enabled when page_number < total_pages.
ClickNext ==
    /\ session.explorer /\ session.total_pages > 1
    /\ ~(session.page_number >= session.total_pages)
    /\ session' = DrawView([session EXCEPT !.page_number = @ + 1])
    /\ UNCHANGED <<fetchVars, sentimentVars, run>>

AppNext ==
    \/ Analyse
    \/ Reset
    \/ SelectView
    \/ ChangeSentimentFilter
    \/ ChangeSearchTerm
    \/ ChangeCommentsPerPage
    \/ ClickPrev
    \/ ClickNext

AppSpec == AppInit /\ [][AppNext]_vars

\* C28: in the comments explorer, after any filter, search, page size
\* change and any Prev or Next click, the stored page_number is at least 1
\* and at most max(1, total_pages), so that the slice on display is not
\* empty when the filtered list is not.
C28_PageInRange ==
    session.explorer =>
        /\ session.page_number >= 1
        /\ session.page_number <= Max(1, session.total_pages)
        /\ (session.total_filtered > 0 => session.shown > 0)

\* C29: after any analyses, failed or not, and resets, dashboard data that
\* is there was computed from the comments of the video that video_id and
\* video_stats of the session name.
C29_DashboardMatchesVideo ==
    session.dashboard_data # "" =>
        /\ session.video_id = session.dashboard_data
        /\ session.video_stats = session.dashboard_data

\* ------------------------------------------------- aspects, aggregated
\* The comments of the call that analyze_comment analysed and whose aspect
\* map holds the aspect.
MentionsOf(aspect) ==
    {i \in 1..Len(run.comments) :
        run.comments[i].analysed /\ aspect \in run.comments[i].aspects}

LabelledAmong(ids, label) ==
    Cardinality({i \in ids : run.comments[i].sentiment = label})

\* C30: every aspect get_aspect_based_sentiment reports has a mention_count
\* of at least 1 that is the number of analysed comments whose aspect map
\* holds the aspect; the counts under the positive, neutral and negative
\* shares add up to mention_count, and each of them is the number of these
\* comments that analyze_comment labelled so.
C30_AspectShares ==
    run.op = "get_aspect_based_sentiment" =>
        \A aspect \in DOMAIN run.out :
            LET row == run.out[aspect]
                ids == MentionsOf(aspect)
            IN /\ row.mention_count >= 1
               /\ row.mention_count = Cardinality(ids)
               /\ row.positive.den = row.mention_count
               /\ row.neutral.den = row.mention_count
               /\ row.negative.den = row.mention_count
               /\ row.positive.num + row.neutral.num + row.negative.num
                      = row.mention_count
               /\ row.positive.num = LabelledAmong(ids, "positive")
               /\ row.neutral.num = LabelledAmong(ids, "neutral")
               /\ row.negative.num = LabelledAmong(ids, "negative")

\* Two analysed comments mention the content and one of them the length
\* too; one has a combined score of exactly 0.2, the other a higher one.
C30_Witness ==
    /\ run.op = "get_aspect_based_sentiment"
    /\ Len(run.comments) = 2
    /\ DOMAIN run.out = {"content", "length"}
    /\ run.out["content"].mention_count = 2
    /\ run.out["content"].positive.num = 1
    /\ run.out["content"].neutral.num = 1
    /\ run.out["length"].mention_count = 1
    /\ \E i \in 1..2 : run.comments[i].combined_score = [num |-> 20, den |-> 100]

====
